---- MODULE Spec2Model ----
(***************************************************************************)
(* Model of the mcp-ssh broker: the process singleton guard                *)
(* (src/process-manager.ts, src/index.ts), the connection registry         *)
(* (src/tools/ssh-service.ts) and the tool layer that drives it (ssh.ts).  *)
(*                                                                         *)
(* Granularity.  Within one broker process the runtime is a single         *)
(* threaded event loop: a handler runs without interruption until it       *)
(* awaits an I/O completion or a timer, so every action of the broker      *)
(* part is one such run.  Different broker processes are scheduled by the  *)
(* operating system, so in the singleton guard every file-system or        *)
(* signal system call is an action of its own.                             *)
(***************************************************************************)
EXTENDS Naturals, FiniteSets, Sequences

(***************************************************************************)
(* Bounds of the model                                                     *)
(***************************************************************************)
NumProcs == 2        \* broker processes that are started on one lockfile path
MaxClock == 1        \* Date.now() takes the values 0..MaxClock
MaxClients == 3      \* SSH clients (new NodeSSH()) created in one run
MaxConnects == 2     \* connect calls of tools that open a transport in one run
MaxDeletes == 1      \* deleteConnection calls in one run
NumSecrets == 1      \* distinct passwords / passphrases that connect calls supply
MaxTime == 3         \* Date.now() of the context manager takes the values 1..MaxTime
MaxExtra == 5        \* text lengths within MaxExtra of the truncator's maxLength
NumPatterns == 5     \* texts of one length handed to the truncator
MaxBody == 2         \* words of a segment of a command line after its first words
MaxSegments == 2     \* segments of a command line handed to parseCommand
ReconnectTries == 1  \* config.reconnectTries, set from RECONNECT_ATTEMPTS
MaxTimers == 2       \* setInterval timers of background tasks alive at once
MaxOverlap == 1      \* tick callbacks of one timer awaiting their command
NumBgCalls == 2      \* backgroundExecute tool calls in flight at once
NumExecCalls == 1    \* executeCommand tool calls made in one run
NumLocalPorts == 1   \* local ports that createTunnel calls name
MaxServers == 2      \* net.Server objects created by createTunnel in one run
NumSockets == 1      \* local sockets accepted by tunnel servers in one run
NumChannels == 1     \* shell channels opened by createTerminalSession in one run
NumWriteCalls == 1   \* writeToTerminal tool calls made in one run
MaxPrompts == 1      \* password prompts in the output of one channel
NumTransfers == 1    \* uploadFile / downloadFile tool calls made in one run
MaxSize == 2         \* file sizes reported by stat are 0..MaxSize bytes
MaxBytes == 3        \* bytes that the read stream of a transfer delivers at most
MaxItems == 2        \* items of a batchUploadFiles / batchDownloadFiles call
MaxItemSize == 1     \* file sizes of batch items are 0..MaxItemSize bytes
MaxItemBytes == 1    \* bytes that the read stream of a batch item delivers at most

(***************************************************************************)
(* Program constants                                                       *)
(***************************************************************************)
DefaultPort == 22       \* config.port || 22

VARIABLES
  \* ---- process singleton guard ----
  lockFile,      \* content of the lockfile: NoFile or [pid, instanceId]
  clock,         \* the wall clock read by Date.now()
  ppc,           \* per process: position in main()/checkAndCreateLock()
  instanceId,    \* per process: ProcessManager.instanceId
  lockData,      \* per process: the lockData parsed at line 92
  sig,           \* per process: a SIGINT/SIGTERM is pending delivery
  cpc,           \* per process: position inside cleanup(), "none" outside
  cnext,         \* per process: where the process continues after cleanup()
  outcome,       \* per process: how checkAndCreateLock() ended
  termSent,      \* per process: line 103 delivered SIGTERM to a live holder
  \* ---- connection registry (SSHService) ----
  conn,          \* this.connections: per id the SSHConnection object in the map
  transport,     \* per NodeSSH client: state of its SSH transport
  inv,           \* per NodeSSH client: the connect() invocation that created it
  reTimers,      \* per id: pending attemptReconnect timers, by attempts made
  closing,       \* the disconnect()/deleteConnection() invocation in flight
  deletes,       \* number of deleteConnection calls made
  isDocker,      \* this.isDocker: credentials are kept in the collection, not the keyring
  persisted,     \* connectionCollection: per id, a record is stored
  creds,         \* the credential store: per id the stored password and passphrase
  currentDirectory, \* per id: connection.currentDirectory of the object in the map
  login,         \* per NodeSSH client: the secrets and rememberPassword of its connect()
  \* ---- tool layer (SshMCP) ----
  bgEntry,       \* this.backgroundExecutions: per id its timer, 0 if none
  timer,         \* per setInterval timer: live?, connection id, ticks in flight
  bgCall,        \* per backgroundExecute call: position in the handler
  xc,            \* per executeCommand call: position and locals of the handler
  \* ---- tunnels (SSHService.createTunnel / closeTunnel) ----
  tunnels,       \* this.tunnels: per tunnel id the record in the map
  srv,           \* per net.Server: listening state and what its closure holds
  sock,          \* per accepted local socket: both sides of the forwarded pair
  closes,        \* closeTunnel invocations awaiting server.close()
  \* ---- terminal sessions (SSHService.createTerminalSession ...) ----
  terminalSessions, \* this.terminalSessions: per session id the channel of its record
  session,       \* per shell channel: the stream and the session object made with it
  wcall,         \* per writeToTerminal call: position and locals
  \* ---- file transfers (SSHService.uploadFile / downloadFile) ----
  xfer,          \* per upload/download tool call: its record, streams, position
  \* ---- batch transfers (SSHService.batchTransfer) ----
  batch,         \* the batchUploadFiles / batchDownloadFiles call: position, locals
  item,          \* per item of the batch: its record, streams, position
  \* ---- container contexts, command engine, output truncator ----
  sessions,      \* ContainerContextManager.containerSessions, in insertion order
  dateNow,       \* Date.now() as the context manager reads it
  call,          \* the executeCommand call in flight or just returned
  prev,          \* the command that executeCommand ran last
  text,          \* the text handed to limitOutputLength
  output,        \* what limitOutputLength returned for it
  parse          \* the command line handed to parseCommand and what it returned

lockVars == <<lockFile, clock, ppc, instanceId, lockData, sig, cpc, cnext, outcome,
             termSent>>

regVars == <<conn, transport, inv, reTimers, closing, deletes>>

storeVars == <<isDocker, persisted, creds, currentDirectory, login>>

toolVars == <<bgEntry, timer, bgCall, xc>>

tunnelVars == <<tunnels, srv, sock, closes>>

ptyVars == <<terminalSessions, session, wcall>>

xferVars == <<xfer>>

batchVars == <<batch, item>>

engVars == <<sessions, dateNow, call, prev, text, output, parse>>

svcVars == <<tunnelVars, ptyVars, xferVars, batchVars, engVars>>

notEngVars == <<lockVars, regVars, storeVars, toolVars, tunnelVars, ptyVars, xferVars,
               batchVars>>

notTunnelVars == <<lockVars, regVars, storeVars, toolVars, ptyVars, xferVars, batchVars,
    engVars>>

notPtyVars == <<lockVars, regVars, storeVars, toolVars, tunnelVars, xferVars, batchVars,
    engVars>>

notXferVars == <<lockVars, regVars, storeVars, toolVars, tunnelVars, ptyVars, batchVars,
    engVars>>

notBatchVars == <<lockVars, regVars, storeVars, toolVars, tunnelVars, ptyVars, xferVars,
    engVars>>

brokerVars == <<regVars, storeVars, toolVars, svcVars>>

vars == <<lockVars, regVars, storeVars, toolVars, svcVars>>

(***************************************************************************)
(* Process singleton guard                                                 *)
(***************************************************************************)
Procs == 1..NumProcs
NoFile == [pid |-> 0, instanceId |-> 0, present |-> FALSE]
LockRecord(p, i) == [pid |-> p, instanceId |-> i, present |-> TRUE]

\* process.kill(pid, 0) succeeds: the process exists
Alive(p) == ppc[p] \notin {"idle", "dead"}

\* a process is running synchronous code of checkAndCreateLock or cleanup and
\* cannot run a signal handler
InEventLoop(p) == cpc[p] = "none" /\ ppc[p] \in {"wait", "running", "closing"}

LockInit ==
  /\ lockFile = NoFile
  /\ clock = 0
  /\ ppc = [p \in Procs |-> "idle"]
  /\ instanceId = [p \in Procs |-> 0]
  /\ lockData = [p \in Procs |-> NoFile]
  /\ sig = [p \in Procs |-> FALSE]
  /\ cpc = [p \in Procs |-> "none"]
  /\ cnext = [p \in Procs |-> "idle"]
  /\ outcome = [p \in Procs |-> "none"]
  /\ termSent = [p \in Procs |-> FALSE]

\* time passes
ClockTick ==
  /\ clock < MaxClock
  /\ clock' = clock + 1
  /\ UNCHANGED <<lockFile, ppc, instanceId, lockData, sig, cpc, cnext, outcome, termSent>>
  /\ UNCHANGED brokerVars

\* new ProcessManager(): instanceId = Date.now().toString(), registerCleanup()
Construct(p) ==
  /\ ppc[p] = "idle"
  /\ instanceId' = [instanceId EXCEPT ![p] = clock]
  /\ ppc' = [ppc EXCEPT ![p] = "exists"]
  /\ UNCHANGED <<lockFile, clock, lockData, sig, cpc, cnext, outcome, termSent>>
  /\ UNCHANGED brokerVars

\* checkAndCreateLock returned false: main() calls process.exit(1), whose
\* 'exit' event runs cleanup()
ReturnFalse(p, why) ==
  /\ ppc' = [ppc EXCEPT ![p] = "exiting"]
  /\ cpc' = [cpc EXCEPT ![p] = "cExists"]
  /\ cnext' = [cnext EXCEPT ![p] = "dead"]
  /\ outcome' = [outcome EXCEPT ![p] = why]

\* line 90: fs.existsSync(this.lockFile)
CheckExists(p) ==
  /\ ppc[p] = "exists" /\ cpc[p] = "none"
  /\ ppc' = [ppc EXCEPT ![p] = IF lockFile.present THEN "read" ELSE "write"]
  /\ UNCHANGED <<lockFile, clock, instanceId, lockData, sig, cpc, cnext, outcome, termSent>>
  /\ UNCHANGED brokerVars

\* line 92: JSON.parse(fs.readFileSync(...)); ENOENT goes to the outer catch
ReadLock(p) ==
  /\ ppc[p] = "read" /\ cpc[p] = "none"
  /\ IF lockFile.present
       THEN /\ lockData' = [lockData EXCEPT ![p] = lockFile]
            /\ ppc' = [ppc EXCEPT ![p] = "probe"]
            /\ UNCHANGED <<cpc, cnext, outcome>>
       ELSE /\ ReturnFalse(p, "error")
            /\ UNCHANGED lockData
  /\ UNCHANGED <<lockFile, clock, instanceId, sig, termSent>>
  /\ UNCHANGED brokerVars

\* line 98: process.kill(lockData.pid, 0); ESRCH goes to the inner catch
ProbeHolder(p) ==
  /\ ppc[p] = "probe" /\ cpc[p] = "none"
  /\ ppc' = [ppc EXCEPT ![p] = IF Alive(lockData[p].pid) THEN "term" ELSE "unlinkStale"]
  /\ UNCHANGED <<lockFile, clock, instanceId, lockData, sig, cpc, cnext, outcome, termSent>>
  /\ UNCHANGED brokerVars

\* line 103: process.kill(lockData.pid, 'SIGTERM')
TermHolder(p) ==
  /\ ppc[p] = "term" /\ cpc[p] = "none"
  /\ LET h == lockData[p].pid IN
       IF Alive(h)
         THEN /\ sig' = [sig EXCEPT ![h] = TRUE]
              /\ ppc' = [ppc EXCEPT ![p] = "wait"]
              /\ termSent' = [termSent EXCEPT ![p] = TRUE]
         ELSE /\ ppc' = [ppc EXCEPT ![p] = "unlinkStale"]
              /\ UNCHANGED <<sig, termSent>>
  /\ UNCHANGED <<lockFile, clock, instanceId, lockData, cpc, cnext, outcome>>
  /\ UNCHANGED brokerVars

\* lines 69-82, 107: waitForProcessExit sees the holder gone
WaitExited(p) ==
  /\ ppc[p] = "wait" /\ cpc[p] = "none"
  /\ ~Alive(lockData[p].pid)
  /\ ppc' = [ppc EXCEPT ![p] = "unlinkOld"]
  /\ UNCHANGED <<lockFile, clock, instanceId, lockData, sig, cpc, cnext, outcome, termSent>>
  /\ UNCHANGED brokerVars

\* lines 71, 81, 108-112: the holder is still alive when maxWaitTime is over
WaitTimeout(p) ==
  /\ ppc[p] = "wait" /\ cpc[p] = "none"
  /\ Alive(lockData[p].pid)
  /\ ReturnFalse(p, "timeout")
  /\ UNCHANGED <<lockFile, clock, instanceId, lockData, sig, termSent>>
  /\ UNCHANGED brokerVars

\* line 116: fs.unlinkSync(this.lockFile) inside the inner try: ENOENT is
\* caught by the inner catch of line 118
UnlinkOld(p) ==
  /\ ppc[p] = "unlinkOld" /\ cpc[p] = "none"
  /\ IF lockFile.present
       THEN /\ lockFile' = NoFile
            /\ ppc' = [ppc EXCEPT ![p] = "write"]
       ELSE /\ ppc' = [ppc EXCEPT ![p] = "unlinkStale"]
            /\ UNCHANGED lockFile
  /\ UNCHANGED <<clock, instanceId, lockData, sig, cpc, cnext, outcome, termSent>>
  /\ UNCHANGED brokerVars

\* line 122: fs.unlinkSync(this.lockFile) inside the inner catch: ENOENT goes
\* to the outer catch of line 141, which returns false
UnlinkStale(p) ==
  /\ ppc[p] = "unlinkStale" /\ cpc[p] = "none"
  /\ IF lockFile.present
       THEN /\ lockFile' = NoFile
            /\ ppc' = [ppc EXCEPT ![p] = "write"]
            /\ UNCHANGED <<cpc, cnext, outcome>>
       ELSE /\ ReturnFalse(p, "error")
            /\ UNCHANGED lockFile
  /\ UNCHANGED <<clock, instanceId, lockData, sig, termSent>>
  /\ UNCHANGED brokerVars

\* lines 130-140: fs.writeFileSync(lockFile, {pid, instanceId}); return true;
\* main() then builds the service and registers its own signal handlers
WriteLock(p) ==
  /\ ppc[p] = "write" /\ cpc[p] = "none"
  /\ lockFile' = LockRecord(p, instanceId[p])
  /\ ppc' = [ppc EXCEPT ![p] = "running"]
  /\ outcome' = [outcome EXCEPT ![p] = "ok"]
  /\ UNCHANGED <<clock, instanceId, lockData, sig, cpc, cnext, termSent>>
  /\ UNCHANGED brokerVars

\* the operator or the service manager sends SIGINT/SIGTERM to a broker
ExternalSignal(p) ==
  /\ Alive(p) /\ ~sig[p]
  /\ sig' = [sig EXCEPT ![p] = TRUE]
  /\ UNCHANGED <<lockFile, clock, ppc, instanceId, lockData, cpc, cnext, outcome, termSent>>
  /\ UNCHANGED brokerVars

\* lines 50-51: the signal listener of ProcessManager runs cleanup().  Only a
\* process that reached "running" has the listeners of index.ts (lines 40-52),
\* which close the service and exit.
HandleSignal(p) ==
  /\ sig[p] /\ InEventLoop(p)
  /\ sig' = [sig EXCEPT ![p] = FALSE]
  /\ cpc' = [cpc EXCEPT ![p] = "cExists"]
  /\ cnext' = [cnext EXCEPT ![p] = IF ppc[p] = "running" THEN "closing" ELSE ppc[p]]
  /\ UNCHANGED <<lockFile, clock, ppc, instanceId, lockData, outcome, termSent>>
  /\ UNCHANGED brokerVars

CleanupDone(p) ==
  /\ cpc' = [cpc EXCEPT ![p] = "none"]
  /\ ppc' = [ppc EXCEPT ![p] = cnext[p]]

\* line 57: fs.existsSync(this.lockFile)
CleanupExists(p) ==
  /\ cpc[p] = "cExists"
  /\ IF lockFile.present
       THEN cpc' = [cpc EXCEPT ![p] = "cRead"] /\ UNCHANGED ppc
       ELSE CleanupDone(p)
  /\ UNCHANGED <<lockFile, clock, instanceId, lockData, sig, cnext, outcome, termSent>>
  /\ UNCHANGED brokerVars

\* lines 58-60: read the lockfile and compare its instanceId with ours
CleanupOwnsLock(p, data) == data.instanceId = instanceId[p]

CleanupRead(p) ==
  /\ cpc[p] = "cRead"
  /\ IF lockFile.present /\ CleanupOwnsLock(p, lockFile)
       THEN cpc' = [cpc EXCEPT ![p] = "cUnlink"] /\ UNCHANGED ppc
       ELSE CleanupDone(p)
  /\ UNCHANGED <<lockFile, clock, instanceId, lockData, sig, cnext, outcome, termSent>>
  /\ UNCHANGED brokerVars

\* line 61: fs.unlinkSync(this.lockFile); an error is swallowed (line 64)
CleanupUnlink(p) ==
  /\ cpc[p] = "cUnlink"
  /\ lockFile' = NoFile
  /\ CleanupDone(p)
  /\ UNCHANGED <<clock, instanceId, lockData, sig, cnext, outcome, termSent>>
  /\ UNCHANGED brokerVars

\* index.ts lines 43-44, 50-51: sshMCP.close() finished, process.exit(0); the
\* 'exit' event runs cleanup() once more
ExitAfterClose(p) ==
  /\ ppc[p] = "closing" /\ cpc[p] = "none"
  /\ ppc' = [ppc EXCEPT ![p] = "exiting"]
  /\ cpc' = [cpc EXCEPT ![p] = "cExists"]
  /\ cnext' = [cnext EXCEPT ![p] = "dead"]
  /\ UNCHANGED <<lockFile, clock, instanceId, lockData, sig, outcome, termSent>>
  /\ UNCHANGED brokerVars

LockNext ==
  \/ ClockTick
  \/ \E p \in Procs :
       \/ Construct(p)
       \/ CheckExists(p)
       \/ ReadLock(p)
       \/ ProbeHolder(p)
       \/ TermHolder(p)
       \/ WaitExited(p)
       \/ WaitTimeout(p)
       \/ UnlinkOld(p)
       \/ UnlinkStale(p)
       \/ WriteLock(p)
       \/ ExternalSignal(p)
       \/ HandleSignal(p)
       \/ CleanupExists(p)
       \/ CleanupRead(p)
       \/ CleanupUnlink(p)
       \/ ExitAfterClose(p)

(***************************************************************************)
(* Properties of the process singleton guard                               *)
(***************************************************************************)

\* C3: at most one broker instance per lockfile path has passed
\* checkAndCreateLock and is running, whatever the interleaving of the
\* startup steps of the processes.
C3_AtMostOneRunning ==
  Cardinality({p \in Procs : ppc[p] = "running"}) <= 1

\* C4: an instance that found the lockfile naming a live pid and sent it
\* SIGTERM fails to take the lock only if the holder is still alive when the
\* wait is over; if the holder exits in time (also when the holder removed its
\* own lockfile on the way out) checkAndCreateLock returns true.
C4_TakeoverFailsOnlyOnTimeout ==
  \A p \in Procs : (termSent[p] /\ outcome[p] \notin {"none", "ok"}) => outcome[p] = "timeout"

\* C5: the cleanup of an instance removes the lockfile only when the lockfile
\* is its own: it never removes a lockfile written by another (successor)
\* instance.
C5_CleanupRemovesOnlyOwnLock ==
  [][\A p \in Procs : (CleanupUnlink(p) /\ lockFile.present) => lockFile.pid = p]_vars

(***************************************************************************)
(* Connection registry: SSHService.connect / scheduleReconnect /           *)
(* disconnect / deleteConnection                                           *)
(***************************************************************************)
Hosts == {"h"}
Ports == {0, DefaultPort}          \* 0: config.port is undefined
Configs == [username : {"u"}, host : Hosts, port : Ports]

\* lines 278-283: md5 of `${username}@${host}:${port || 22}`; the digest is
\* modelled by the string it is taken of, as the triple of its parts
GenerateConnectionId(cfg) ==
  <<cfg.username, cfg.host, IF cfg.port = 0 THEN DefaultPort ELSE cfg.port>>

ConnIds == {GenerateConnectionId(cfg) : cfg \in Configs}
Clients == 1..MaxClients
Statuses == {"disconnected", "connecting", "connected", "reconnecting", "error"}

NoConn == [exists |-> FALSE, gen |-> 0, status |-> "disconnected", client |-> 0]
NoInv == [phase |-> "none", origin |-> "caller", attempts |-> 0, gen |-> 0, id |-> <<>>]
NoClosing == [kind |-> "none", gen |-> 0]

\* a secret is 0 when it is undefined or empty
Secrets == 0..NumSecrets
\* what a connect call supplies: config.password, config.privateKey (given
\* or not), config.passphrase and rememberPassword
Logins == [password : Secrets, privateKey : BOOLEAN, passphrase : Secrets,
           remember : BOOLEAN]
PlainLogin == [password |-> 1, privateKey |-> FALSE, passphrase |-> 0, remember |-> FALSE]
\* what a connect call keeps of it until it returns
NoLogin == [password |-> 0, passphrase |-> 0, remember |-> FALSE]
\* the stored credentials of an id: the keyring entries of the two services,
\* or the record of the credential collection (exists) with its two fields
NoCreds == [exists |-> FALSE, password |-> 0, passphrase |-> 0]
\* stdout of `pwd`, trimmed: the home directory of the login shell, or the
\* empty text when the exec failed (line 1365)
HomeDir == "/home/u"
PwdOutputs == {HomeDir, ""}
Undefined == "undefined"

RegInit ==
  /\ conn = [i \in ConnIds |-> NoConn]
  /\ transport = [c \in Clients |-> "unused"]
  /\ inv = [c \in Clients |-> NoInv]
  /\ reTimers = [i \in ConnIds |-> [k \in 0..(ReconnectTries - 1) |-> 0]]
  /\ closing = [i \in ConnIds |-> NoClosing]
  /\ deletes = 0
  /\ persisted = [i \in ConnIds |-> FALSE]
  /\ creds = [i \in ConnIds |-> NoCreds]
  /\ currentDirectory = [i \in ConnIds |-> Undefined]
  /\ login = [c \in Clients |-> NoLogin]

\* the connection id a client was created for (one id per (host, port||22))
FreeClients == {c \in Clients : transport[c] = "unused"}
NextClient == CHOOSE c \in FreeClients : \A d \in FreeClients : c <= d

\* line 374: connection && status === CONNECTED && connection.client
IsConnected(i) == conn[i].exists /\ conn[i].status = "connected" /\ conn[i].client # 0

\* a client whose handshake completed and that was not disposed
LiveClients(i) == {c \in Clients : transport[c] = "ready" /\ inv[c].id = i}

\* a connect() invocation keeps the connection object it looked up or created
\* (line 371/394); a write reaches the map only while that object is in it
HoldsObject(c) == conn[inv[c].id].exists /\ conn[inv[c].id].gen = inv[c].gen

\* lines 379-395 and 410-425: not connected: mark the (new or existing)
\* connection as connecting and start the handshake of a new NodeSSH client
OpenTransport(i, origin, attempts) ==
  LET c == NextClient
      g == IF conn[i].exists THEN conn[i].gen ELSE conn[i].gen + 1
  IN /\ FreeClients # {}
     /\ conn' = [conn EXCEPT ![i] = [exists |-> TRUE, gen |-> g,
                                      status |-> "connecting", client |-> conn[i].client]]
     /\ transport' = [transport EXCEPT ![c] = "connecting"]
     /\ inv' = [inv EXCEPT ![c] = [phase |-> "handshake", origin |-> origin,
                                    attempts |-> attempts, gen |-> g, id |-> i]]

\* the clients that connect calls of tools have created
CallerClients == {c \in Clients : inv[c].phase # "none" /\ inv[c].origin = "caller"}

\* lines 398-407: a call without password and private key takes the stored
\* password and passphrase into its config; the store is taken to answer at
\* once
WithSavedCredentials(lg, i) ==
  IF lg.password = 0 /\ ~lg.privateKey
    THEN [password |-> creds[i].password,
          passphrase |-> IF creds[i].passphrase # 0 THEN creds[i].passphrase
                         ELSE lg.passphrase,
          remember |-> lg.remember]
    ELSE [password |-> lg.password, passphrase |-> lg.passphrase, remember |-> lg.remember]

\* lines 367-425: connect(config, name, rememberPassword) called by a tool
Connect(cfg, lg) ==
  LET i == GenerateConnectionId(cfg) IN
  /\ IF IsConnected(i)
       THEN UNCHANGED <<conn, transport, inv, login>>
       ELSE /\ Cardinality(CallerClients) < MaxConnects
            /\ OpenTransport(i, "caller", 0)
            /\ login' = [login EXCEPT ![NextClient] = WithSavedCredentials(lg, i)]
  /\ UNCHANGED <<isDocker, persisted, creds, currentDirectory>>
  /\ UNCHANGED <<reTimers, closing, deletes, toolVars, lockVars, svcVars>>

\* connect called with a password and rememberPassword = false
ConnectCall(cfg) == Connect(cfg, PlainLogin)

\* lines 458-498: scheduleReconnect looks the id up in the map (line 459),
\* sets status = reconnecting and arms the first timer of a new chain
ScheduleReconnect(cn, tm, i) ==
  IF cn[i].exists
    THEN <<[cn EXCEPT ![i].status = "reconnecting"], [tm EXCEPT ![i][0] = @ + 1]>>
    ELSE <<cn, tm>>

\* lines 449-451: the failure branch of connect
ShouldReconnect(tries) == tries > 0

\* lines 479-493: the catch of attemptReconnect after `attempts` tries
AfterFailedAttempt(cn, tm, i, attempts) ==
  IF attempts < ReconnectTries
    THEN <<cn, [tm EXCEPT ![i][attempts] = @ + 1]>>
    ELSE <<IF cn[i].exists THEN [cn EXCEPT ![i].status = "error"] ELSE cn, tm>>

\* lines 443-454 with 479-493: the catch of connect marks the connection
\* object it holds as failed and schedules a new chain of reconnects; then,
\* when the call came from a reconnect timer, the catch of attemptReconnect
\* runs. cn is the map as the try block left it.
ConnectFailed(c, cn) ==
  LET i == inv[c].id
      c1 == IF HoldsObject(c) THEN [cn EXCEPT ![i].status = "error"] ELSE cn
      s2 == IF ShouldReconnect(ReconnectTries)
              THEN ScheduleReconnect(c1, reTimers, i) ELSE <<c1, reTimers>>
  IN IF inv[c].origin = "timer"
       THEN AfterFailedAttempt(s2[1], s2[2], i, inv[c].attempts) ELSE s2

\* lines 320-332: saveCredentials with the collection: the two fields of
\* the record are overwritten, or a record is inserted
SaveToCollection(cr, pw, pp) == [exists |-> TRUE, password |-> pw, passphrase |-> pp]

\* lines 333-345: saveCredentials with the keyring: an entry is set for
\* every secret that is not empty
SaveToKeyring(cr, pw, pp) ==
  [cr EXCEPT !.password = IF pw # 0 THEN pw ELSE @,
             !.passphrase = IF pp # 0 THEN pp ELSE @]

\* lines 427-431: ssh.connect resolved; client and status are stored in the
\* connection object and getCurrentDirectory looks the id up in the map: it
\* awaits `pwd`, or it throws into the catch of line 443 when the map does
\* not hold a connected connection under the id
HandshakeOk(c) ==
  LET i == inv[c].id
      stored == IF HoldsObject(c)
                  THEN [conn EXCEPT ![i].client = c, ![i].status = "connected"]
                  ELSE conn
      pwdThrows == ~(stored[i].exists /\ stored[i].client # 0
                     /\ stored[i].status = "connected")
      failed == ConnectFailed(c, stored)
  IN /\ inv[c].phase = "handshake"
     /\ transport' = [transport EXCEPT ![c] = "ready"]
     /\ inv' = [inv EXCEPT ![c].phase = IF pwdThrows THEN "done" ELSE "pwd"]
     /\ conn' = IF pwdThrows THEN failed[1] ELSE stored
     /\ reTimers' = IF pwdThrows THEN failed[2] ELSE reTimers
     /\ login' = IF pwdThrows THEN [login EXCEPT ![c] = NoLogin] ELSE login
     /\ UNCHANGED <<closing, deletes, isDocker, persisted, creds, currentDirectory>>
     /\ UNCHANGED <<lockVars, svcVars>>
     /\ UNCHANGED toolVars

\* lines 431-442 with 1364-1368: `pwd` answered (out is the empty text when
\* the exec failed): the connection object gets its currentDirectory; with
\* rememberPassword the credentials are saved, at once in the collection or
\* after the keyring was awaited; then saveConnection stores the record of
\* the id and connect returns
PwdDone(c, out) ==
  LET i == inv[c].id
      keyring == login[c].remember /\ ~isDocker
  IN /\ inv[c].phase = "pwd"
     /\ currentDirectory' = IF HoldsObject(c) THEN [currentDirectory EXCEPT ![i] = out]
                             ELSE currentDirectory
     /\ inv' = [inv EXCEPT ![c].phase = IF keyring THEN "keyring" ELSE "done"]
     /\ creds' = IF login[c].remember /\ isDocker
                   THEN [creds EXCEPT ![i] = SaveToCollection(@, login[c].password,
                                                              login[c].passphrase)]
                   ELSE creds
     /\ persisted' = IF keyring THEN persisted ELSE [persisted EXCEPT ![i] = TRUE]
     /\ login' = IF keyring THEN login ELSE [login EXCEPT ![c] = NoLogin]
     /\ UNCHANGED <<conn, transport, reTimers, closing, deletes, isDocker>>
     /\ UNCHANGED <<lockVars, svcVars>>
     /\ UNCHANGED toolVars

\* lines 333-345 and 439-442: the keyring was awaited: it took the entries
\* (ok), or it threw and the catch of line 343 logged it; then saveConnection
\* stores the record of the id and connect returns
KeyringSaved(c, ok) ==
  LET i == inv[c].id
  IN /\ inv[c].phase = "keyring"
     /\ inv' = [inv EXCEPT ![c].phase = "done"]
     /\ creds' = IF ok THEN [creds EXCEPT ![i] = SaveToKeyring(@, login[c].password,
                                                               login[c].passphrase)]
                  ELSE creds
     /\ persisted' = [persisted EXCEPT ![i] = TRUE]
     /\ login' = [login EXCEPT ![c] = NoLogin]
     /\ UNCHANGED <<conn, transport, reTimers, closing, deletes, isDocker,
                    currentDirectory>>
     /\ UNCHANGED <<lockVars, svcVars>>
     /\ UNCHANGED toolVars

\* lines 443-454: ssh.connect rejected
HandshakeFail(c) ==
  LET i == inv[c].id
      failed == ConnectFailed(c, conn)
  IN /\ inv[c].phase = "handshake"
     /\ transport' = [transport EXCEPT ![c] = "failed"]
     /\ inv' = [inv EXCEPT ![c].phase = "done"]
     /\ conn' = failed[1]
     /\ reTimers' = failed[2]
     /\ login' = [login EXCEPT ![c] = NoLogin]
     /\ UNCHANGED <<closing, deletes, isDocker, persisted, creds, currentDirectory>>
     /\ UNCHANGED <<lockVars, svcVars>>
     /\ UNCHANGED toolVars

\* lines 471-476: a reconnect timer fires: attempts++, connect(config) with
\* the config of the call that failed and rememberPassword = false
ReconnectFire(i, k) ==
  /\ reTimers[i][k] > 0
  /\ IF IsConnected(i)
       THEN /\ reTimers' = [reTimers EXCEPT ![i][k] = @ - 1]
            /\ UNCHANGED <<conn, transport, inv, login>>
       ELSE /\ OpenTransport(i, "timer", k + 1)
            /\ reTimers' = [reTimers EXCEPT ![i][k] = @ - 1]
            /\ login' = [login EXCEPT ![NextClient] = WithSavedCredentials(PlainLogin, i)]
  /\ UNCHANGED <<closing, deletes, isDocker, persisted, creds, currentDirectory>>
  /\ UNCHANGED <<lockVars, svcVars>>
  /\ UNCHANGED toolVars

\* lines 501-509: disconnect(id) up to `await connection.client.dispose()`
DisposeClient(i) ==
  /\ conn[i].exists /\ conn[i].client # 0
  /\ transport' = [transport EXCEPT ![conn[i].client] = "disposed"]

\* lines 511-515 without line 512: the client is cleared, the status is left
DisconnectedObjectKeepsStatus(cn, i, g) ==
  IF cn[i].exists /\ cn[i].gen = g
    THEN [cn EXCEPT ![i].client = 0]
    ELSE cn

\* lines 511-515: after the await: status and client of the captured object
DisconnectedObject(cn, i, g) ==
  IF cn[i].exists /\ cn[i].gen = g
    THEN [cn EXCEPT ![i].status = "disconnected", ![i].client = 0]
    ELSE cn

\* lines 1379-1382: deleteConnection after the disconnect: drop the map entry
DeletedEntry(cn, i) == [cn EXCEPT ![i] = [NoConn EXCEPT !.gen = cn[i].gen]]

\* lines 1377-1400: deleteConnection after the disconnect: the record of the
\* collection is removed, and the credentials: the record of the credential
\* collection at once, the keyring entries after the keyring was awaited
Removed(i) ==
  /\ persisted' = [persisted EXCEPT ![i] = FALSE]
  /\ currentDirectory' = [currentDirectory EXCEPT ![i] = Undefined]
  /\ creds' = IF isDocker THEN [creds EXCEPT ![i] = NoCreds] ELSE creds
  /\ closing' = [closing EXCEPT ![i] =
                   IF isDocker THEN NoClosing ELSE [kind |-> "keyring", gen |-> conn[i].gen]]
  /\ UNCHANGED <<isDocker, login>>

(***************************************************************************)
(* Tool layer: executeCommand, backgroundExecute, stopBackground,          *)
(* disconnect, deleteConnection                                            *)
(***************************************************************************)
Timers == 1..MaxTimers
BgCalls == 1..NumBgCalls
ExecCalls == 1..NumExecCalls

\* failed: a command of the timer has failed and the catch of line 1081 has
\* logged it
NoTimer == [live |-> FALSE, id |-> <<>>, ticks |-> 0, failed |-> FALSE]
NoBgCall == [pc |-> "idle", id |-> <<>>]
\* ops: the remote operations of the call in the order they were issued;
\* beforeCapture: the variable of part_000 line 532; code: the exit code of
\* the command
NoExecCall == [pc |-> "idle", id |-> <<>>, kind |-> "plain", force |-> FALSE,
               panes |-> <<>>, target |-> 0,
               probes |-> {}, sent |-> FALSE, result |-> "none",
               ops |-> <<>>, beforeCapture |-> "undefined", code |-> 256]

\* what the command can answer: its stdout, its stderr and its exit code
ExecResults == [stdout : {"", "\n", "ok"}, stderr : {"", "warn"}, code : {0, 1}]

\* what the probes can answer
\* stdout of `tmux list-panes -t <target> -F "#{pane_pid} #{pane_current_command}"`:
\* empty (error, no session) or one line <<pid, command>> for every pane of
\* the window the target is in
ListPanesOutputs ==
  { <<>>,
    << <<"41", "bash">> >>,
    << <<"41", "vim">> >>,
    << <<"41", "bash">>, <<"42", "vim">> >> }
\* stdout of `ps -o state= -p <pid>`, trimmed
PsOutputs == {"", "S", "D", "T", "W"}

ToolInit ==
  /\ bgEntry = [i \in ConnIds |-> 0]
  /\ timer = [t \in Timers |-> NoTimer]
  /\ bgCall = [b \in BgCalls |-> NoBgCall]
  /\ xc = [x \in ExecCalls |-> NoExecCall]

\* ssh-service.ts lines 540-543: executeCommand throws unless the connection
\* is in the map, has a client and is connected
Available(i) == conn[i].exists /\ conn[i].client # 0 /\ conn[i].status = "connected"

\* part_000 lines 511, 1044, 1069: the tool layer looks at the status only
StatusConnected(i) == conn[i].exists /\ conn[i].status = "connected"

\* part_000 lines 206-212: stopBackgroundExecution clears the timer that the
\* map holds for the id and deletes the entry
StopBackgroundExecution(i) ==
  /\ timer' = IF bgEntry[i] # 0 THEN [timer EXCEPT ![bgEntry[i]].live = FALSE] ELSE timer
  /\ bgEntry' = [bgEntry EXCEPT ![i] = 0]

FreeTimers == {t \in Timers : ~timer[t].live /\ timer[t].ticks = 0}

\* ---------------------------------------------------------------- disconnect
\* part_000 lines 290-308 with ssh-service.ts lines 501-509: the disconnect
\* tool stops the background task, then disconnect() disposes the client
DisconnectTool(i) ==
  /\ conn[i].exists
  /\ closing[i].kind = "none"
  /\ StopBackgroundExecution(i)
  /\ IF conn[i].client # 0
       THEN /\ DisposeClient(i)
            /\ closing' = [closing EXCEPT ![i] = [kind |-> "disconnect", gen |-> conn[i].gen]]
       ELSE UNCHANGED <<transport, closing>>
  /\ UNCHANGED <<conn, inv, reTimers, deletes, bgCall, xc, storeVars>>
  /\ UNCHANGED <<lockVars, svcVars>>

\* ssh-service.ts lines 511-515: dispose() resolved
DisconnectFinish(i) ==
  /\ closing[i].kind = "disconnect"
  /\ conn' = DisconnectedObject(conn, i, closing[i].gen)
  /\ closing' = [closing EXCEPT ![i] = NoClosing]
  /\ UNCHANGED <<transport, inv, reTimers, deletes, toolVars, storeVars>>
  /\ UNCHANGED <<lockVars, svcVars>>

\* part_000 lines 427-451 with ssh-service.ts lines 1371-1375: the
\* deleteConnection tool stops the background task; deleteConnection()
\* first awaits disconnect()
DeleteTool(i) ==
  /\ conn[i].exists
  /\ closing[i].kind = "none"
  /\ deletes < MaxDeletes
  /\ deletes' = deletes + 1
  /\ StopBackgroundExecution(i)
  /\ IF conn[i].client # 0
       THEN /\ DisposeClient(i)
            /\ closing' = [closing EXCEPT ![i] = [kind |-> "delete", gen |-> conn[i].gen]]
            /\ UNCHANGED <<conn, storeVars>>
       ELSE /\ conn' = DeletedEntry(conn, i)
            /\ Removed(i)
            /\ UNCHANGED transport
  /\ UNCHANGED <<inv, reTimers, bgCall, xc>>
  /\ UNCHANGED <<lockVars, svcVars>>

\* ssh-service.ts lines 1375-1382: disconnect() returned, the id is removed
\* from the collection and from this.connections
DeleteFinish(i) ==
  /\ closing[i].kind = "delete"
  /\ conn' = DeletedEntry(DisconnectedObject(conn, i, closing[i].gen), i)
  /\ Removed(i)
  /\ UNCHANGED <<transport, inv, reTimers, deletes, toolVars>>
  /\ UNCHANGED <<lockVars, svcVars>>

\* ssh-service.ts lines 1385-1393 and 1401: the keyring was awaited: the two
\* entries of the id are deleted (ok), or the keyring threw and the catch
\* logged it; deleteConnection returns true
KeyringDeleted(i, ok) ==
  /\ closing[i].kind = "keyring"
  /\ creds' = IF ok THEN [creds EXCEPT ![i] = NoCreds] ELSE creds
  /\ closing' = [closing EXCEPT ![i] = NoClosing]
  /\ UNCHANGED <<conn, transport, inv, reTimers, deletes, toolVars>>
  /\ UNCHANGED <<isDocker, persisted, currentDirectory, login>>
  /\ UNCHANGED <<lockVars, svcVars>>

\* ------------------------------------------------------------ executeCommand
\* part_000 line 551: stdout.trim().split(' '). The lines of the output are
\* joined by newlines and the text is cut at the blanks only, so the command
\* of one line and the pid of the next line end up in one piece. A piece is
\* the sequence of the words that newlines hold together.
RECURSIVE SplitBlank(_)
SplitBlank(lines) ==
  IF lines = <<>> THEN <<>>
  ELSE IF Len(lines) = 1 THEN << <<lines[1][1]>>, <<lines[1][2]>> >>
  ELSE LET rest == SplitBlank(Tail(lines))
       IN  << <<lines[1][1]>>, <<lines[1][2]>> \o rest[1] >> \o Tail(rest)

\* part_000 line 551: the destructuring [panePid, currentCommand]
PanePid(out) == IF Len(SplitBlank(out)) >= 1 THEN SplitBlank(out)[1] ELSE <<>>
CurrentCommand(out) == IF Len(SplitBlank(out)) >= 2 THEN SplitBlank(out)[2] ELSE <<>>

\* part_000 line 571: /^(vim|nano|less|more|top|htop|man)$/ has no m flag, so
\* it matches a piece only when the piece is one of the words and nothing else
InteractiveCommands == {"vim", "nano", "less", "more", "top", "htop", "man"}
MatchesInteractive(piece) == Len(piece) = 1 /\ piece[1] \in InteractiveCommands

\* part_000 lines 564-571: the part of isBlocked that is known before pgrep
BlockedByStateOrCommand(state, out) ==
  state = "D" \/ state = "T" \/ state = "W" \/ MatchesInteractive(CurrentCommand(out))

\* a pre-flight check that does not look at force
NeedsPreflightAlways(kind, force) == kind = "sendkeys"

\* part_000 line 541: the pre-flight check runs only without force
NeedsPreflight(kind, force) == kind = "sendkeys" /\ ~force

\* part_000 lines 595-610, 1000-1016: the handler returns and the output of
\* list-panes goes out of scope
Returned(r, result) ==
  [r EXCEPT !.pc = "done", !.result = result, !.panes = <<>>, !.target = 0]

\* A step of the handler that calls sshService.executeCommand for a probe:
\* when the connection is not available the call throws (ssh-service.ts line
\* 542), the catch of line 614 logs, and the command of line 630 throws the
\* same way into the catch of line 1008: the tool returns an error
StartProbe(r, name, pc) ==
  IF Available(r.id)
    THEN [r EXCEPT !.pc = pc, !.probes = @ \cup {name}, !.ops = Append(@, name)]
    ELSE Returned(r, "threw")

\* part_000 line 630 with ssh-service.ts lines 540-607: the command itself is
\* handed to client.execCommand
StartCommand(r) ==
  IF Available(r.id)
    THEN [r EXCEPT !.pc = "exec", !.sent = TRUE, !.ops = Append(@, "command")]
    ELSE Returned(r, "threw")

\* part_000 lines 497-548 / 630: a tool call arrives
ExecuteCommandTool(x, i, kind, force) ==
  LET fresh == [NoExecCall EXCEPT !.id = i, !.kind = kind, !.force = force] IN
  /\ xc[x].pc = "idle"
  /\ xc' = [xc EXCEPT ![x] =
       IF ~conn[i].exists THEN Returned(fresh, "noConnection")
       ELSE IF ~StatusConnected(i) THEN Returned(fresh, "notConnected")
       ELSE IF NeedsPreflight(kind, force)
         THEN StartProbe(fresh, "list-panes", "listPanes")
         ELSE StartCommand(fresh)]
  /\ UNCHANGED <<regVars, storeVars, bgEntry, timer, bgCall>>
  /\ UNCHANGED <<lockVars, svcVars>>

\* part_000 lines 550-559: list-panes answered; without output or without a
\* pane pid the check is skipped and the command runs. tgt is the line of the
\* pane that the send-keys command addresses.
ListPanesDone(x, out, tgt) ==
  /\ xc[x].pc = "listPanes"
  /\ tgt \in DOMAIN out \/ (out = <<>> /\ tgt = 0)
  /\ xc' = [xc EXCEPT ![x] =
       IF out = <<>> \/ PanePid(out) = <<>>
         THEN StartCommand([xc[x] EXCEPT !.panes = out, !.target = tgt])
         ELSE StartProbe([xc[x] EXCEPT !.panes = out, !.target = tgt], "ps", "ps")]
  /\ UNCHANGED <<regVars, storeVars, bgEntry, timer, bgCall>>
  /\ UNCHANGED <<lockVars, svcVars>>

\* part_000 lines 561-578: ps answered; pgrep runs only when neither the
\* state nor the pane command blocks
PsDone(x, st) ==
  /\ xc[x].pc = "ps"
  /\ xc' = [xc EXCEPT ![x] =
       IF BlockedByStateOrCommand(st, xc[x].panes)
         THEN StartProbe(xc[x], "ps-info", "procInfo")
         ELSE StartProbe(xc[x], "pgrep", "pgrep")]
  /\ UNCHANGED <<regVars, storeVars, bgEntry, timer, bgCall>>
  /\ UNCHANGED <<lockVars, svcVars>>

\* part_000 lines 574-586: pgrep answered
PgrepDone(x, child) ==
  /\ xc[x].pc = "pgrep"
  /\ xc' = [xc EXCEPT ![x] =
       IF child
         THEN StartProbe(xc[x], "ps-info", "procInfo")
         ELSE StartCommand(xc[x])]
  /\ UNCHANGED <<regVars, storeVars, bgEntry, timer, bgCall>>
  /\ UNCHANGED <<lockVars, svcVars>>

\* part_000 lines 582-593: process details answered, capture-pane is started
ProcInfoDone(x) ==
  /\ xc[x].pc = "procInfo"
  /\ xc' = [xc EXCEPT ![x] = StartProbe(xc[x], "capture-pane", "context")]
  /\ UNCHANGED <<regVars, storeVars, bgEntry, timer, bgCall>>
  /\ UNCHANGED <<lockVars, svcVars>>

\* part_000 lines 595-610: the blocked warning is returned with isError
ContextDone(x) ==
  /\ xc[x].pc = "context"
  /\ xc' = [xc EXCEPT ![x] = Returned(@, "blocked")]
  /\ UNCHANGED <<regVars, storeVars, bgEntry, timer, bgCall>>
  /\ UNCHANGED <<lockVars, svcVars>>

\* part_000 lines 632-654: the pieces of the text built from the result:
\* stdout, the error output under its heading, the exit code when it is not
\* 0, and in every case the prompt line
BuildOutput(res) ==
  LET out == IF res.stdout # "" THEN <<res.stdout>> ELSE << >>
      err == IF res.stderr # ""
               THEN out \o (IF out # << >> THEN <<"\n">> ELSE << >>)
                        \o <<"stderr:\n", res.stderr>>
               ELSE out
      cod == IF res.code # 0 THEN err \o <<"\nexit code: ", "1">> ELSE err
  IN  cod \o (IF cod # << >> THEN <<"\n">> ELSE << >>) \o <<"\n[user@host ~]$ ">>

\* part_000 line 657: !output || output.trim() === ''
IsBlank(built) == \A k \in 1..Len(built) : built[k] \in {"", "\n"}

\* part_000 lines 657, 661: the send-keys enrichment is entered for a tmux
\* command that ended with code 0 and whose text is blank, when beforeCapture
\* holds a stdout
Enriches(r, res) ==
  /\ r.kind = "sendkeys" /\ res.code = 0 /\ IsBlank(BuildOutput(res))
  /\ r.beforeCapture # "undefined"

\* part_000 lines 630-672, 1000-1007: the command answered and the text is
\* built; in the enrichment the pane is captured 300 ms later and the text is
\* replaced by the difference of the two captures
ExecDone(x, res) ==
  /\ xc[x].pc = "exec"
  /\ xc' = [xc EXCEPT ![x] =
       IF Enriches(@, res)
         THEN Returned([@ EXCEPT !.code = res.code,
                                 !.ops = Append(@, "capture-pane")], "enriched")
         ELSE Returned([@ EXCEPT !.code = res.code], "returned")]
  /\ UNCHANGED <<regVars, storeVars, bgEntry, timer, bgCall>>
  /\ UNCHANGED <<lockVars, svcVars>>

\* --------------------------------------------------------- backgroundExecute
\* part_000 lines 1030-1063: checks, stop of the existing task, first run
BackgroundExecute(b, i) ==
  /\ bgCall[b].pc = "idle"
  /\ StatusConnected(i)
  /\ StopBackgroundExecution(i)
  /\ bgCall' = [bgCall EXCEPT ![b] =
       IF Available(i) THEN [pc |-> "initial", id |-> i] ELSE NoBgCall]
  /\ UNCHANGED <<regVars, storeVars, xc>>
  /\ UNCHANGED <<lockVars, svcVars>>

\* part_000 lines 1066-1098: the first run answered: setInterval, and the
\* timer is stored under the id
BackgroundStarted(b) ==
  LET i == bgCall[b].id
      t == CHOOSE u \in FreeTimers : \A v \in FreeTimers : u <= v
  IN /\ bgCall[b].pc = "initial"
     /\ FreeTimers # {}
     /\ timer' = [timer EXCEPT ![t] = [live |-> TRUE, id |-> i, ticks |-> 0,
                                       failed |-> FALSE]]
     /\ bgEntry' = [bgEntry EXCEPT ![i] = t]
     /\ bgCall' = [bgCall EXCEPT ![b] = NoBgCall]
     /\ UNCHANGED <<regVars, storeVars, xc>>
     /\ UNCHANGED <<lockVars, svcVars>>

\* part_000 lines 1066-1080: the interval elapsed
Tick(t) ==
  LET i == timer[t].id IN
  /\ timer[t].live
  /\ IF StatusConnected(i)
       THEN /\ Available(i)
            /\ timer[t].ticks < MaxOverlap
            /\ timer' = [timer EXCEPT ![t].ticks = @ + 1]
            /\ UNCHANGED bgEntry
       ELSE StopBackgroundExecution(i)
  /\ UNCHANGED <<regVars, storeVars, bgCall, xc>>
  /\ UNCHANGED <<lockVars, svcVars>>

\* part_000 lines 1070-1083 with a catch that stops the background task of
\* the connection
TickDoneStopsOnFailure(t, ok) ==
  /\ timer[t].ticks > 0
  /\ IF ok
       THEN /\ timer' = [timer EXCEPT ![t].ticks = @ - 1]
            /\ UNCHANGED bgEntry
       ELSE /\ timer' = [timer EXCEPT ![t].ticks = @ - 1, ![t].failed = TRUE,
                                      ![t].live = FALSE]
            /\ bgEntry' = [bgEntry EXCEPT ![timer[t].id] = 0]
  /\ UNCHANGED <<regVars, storeVars, bgCall, xc>>
  /\ UNCHANGED <<lockVars, svcVars>>

\* part_000 lines 1070-1083: the command of a tick answered (ok), or it
\* failed: executeCommand returned an exit code that is not 0 or it threw
\* into the catch of line 1081, which logs the error and does no more
TickDone(t, ok) ==
  /\ timer[t].ticks > 0
  /\ timer' = [timer EXCEPT ![t].ticks = @ - 1, ![t].failed = @ \/ ~ok]
  /\ UNCHANGED <<regVars, storeVars, bgEntry, bgCall, xc>>
  /\ UNCHANGED <<lockVars, svcVars>>

\* part_000 lines 1118-1149: the stopBackground tool
StopBackgroundTool(i) ==
  /\ conn[i].exists
  /\ bgEntry[i] # 0
  /\ StopBackgroundExecution(i)
  /\ UNCHANGED <<regVars, storeVars, bgCall, xc>>
  /\ UNCHANGED <<lockVars, svcVars>>

(***************************************************************************)
(* Tunnels: SSHService.createTunnel / closeTunnel and the socket pairs     *)
(* that a tunnel forwards                                                  *)
(***************************************************************************)
LocalPorts == 1..NumLocalPorts
Servers == 1..MaxServers
Sockets == 1..NumSockets

\* lines 1412-1415: md5 of connectionId:localPort:remoteHost:remotePort:
\* Date.now(); the tools pass no config.id (part_000 lines 2121-2127). The
\* digest is modelled by the parts that differ between calls
TunnelId(i, p, now) == <<i, p, now>>

TunnelIds == {TunnelId(i, p, now) : i \in ConnIds, p \in LocalPorts, now \in 0..MaxClock}

NoTunnel == [exists |-> FALSE, port |-> 0, server |-> 0, active |-> FALSE]
NoServer == [state |-> "unused", port |-> 0, id |-> <<>>, cid |-> <<>>, gen |-> 0,
             hooked |-> FALSE]
NoSock == [srv |-> 0, local |-> "unused", stream |-> "none", hooked |-> FALSE,
           inSet |-> FALSE, client |-> 0]

TunnelInit ==
  /\ tunnels = [id \in TunnelIds |-> NoTunnel]
  /\ srv = [s \in Servers |-> NoServer]
  /\ sock = [k \in Sockets |-> NoSock]
  /\ closes = {}

FreeServers == {s \in Servers : srv[s].state = "unused"}

\* the operating system lets one listener bind 127.0.0.1:port
PortBound(p) == \E s \in Servers : srv[s].state = "listening" /\ srv[s].port = p

\* lines 1418-1419: an active tunnel in the map has this local port
ExistingTunnel(p) ==
  \E id \in TunnelIds : tunnels[id].exists /\ tunnels[id].port = p /\ tunnels[id].active

\* line 1460: connection.client of the connection object that createTunnel
\* looked up at line 1406 and the connection handler closes over; an object
\* that left the map had its client cleared by disconnect (line 513)
ClientOf(s) ==
  LET i == srv[s].cid
  IN IF conn[i].exists /\ conn[i].gen = srv[s].gen THEN conn[i].client ELSE 0

\* lines 1405-1517 up to the await: the connection is available, no active
\* tunnel has the port; a new server with its connection set is stored in
\* the map under the tunnel id and listen() is called
CreateTunnel(i, p) ==
  LET s == CHOOSE f \in FreeServers : \A g \in FreeServers : f <= g
      id == TunnelId(i, p, clock)
  IN /\ Available(i)
     /\ ~ExistingTunnel(p)
     /\ FreeServers # {}
     /\ tunnels' = [tunnels EXCEPT ![id] = [exists |-> TRUE, port |-> p, server |-> s,
                                            active |-> FALSE]]
     /\ srv' = [srv EXCEPT ![s] = [state |-> "binding", port |-> p, id |-> id,
                                   cid |-> i, gen |-> conn[i].gen, hooked |-> TRUE]]
     /\ UNCHANGED <<sock, closes>>
     /\ UNCHANGED notTunnelVars

\* lines 1530-1556: closeTunnel(id) up to the await of server.close(): the
\* sockets in the set of the record lose their listeners and are destroyed,
\* the set is cleared, the server of the record loses its listeners and
\* stops listening. Yields the new <<srv, sock, closes>>.
CloseStart(sv, id) ==
  IF ~tunnels[id].exists
    THEN <<sv, sock, closes>>
    ELSE LET s == tunnels[id].server
         IN << [sv EXCEPT ![s].hooked = FALSE,
                          ![s].state = IF @ \in {"binding", "listening"} THEN "closed" ELSE @],
               [k \in Sockets |->
                  IF sock[k].srv = s /\ sock[k].inSet
                    THEN [sock[k] EXCEPT !.hooked = FALSE, !.local = "destroyed",
                                         !.inSet = FALSE]
                    ELSE sock[k]],
               closes \cup {<<id, s>>} >>

\* lines 1510-1517: the port was free: the server listens, the callback marks
\* the record that the map holds under the tunnel id as active
ListenOk(s) ==
  /\ srv[s].state = "binding"
  /\ ~PortBound(srv[s].port)
  /\ srv' = [srv EXCEPT ![s].state = "listening"]
  /\ tunnels' = IF tunnels[srv[s].id].exists
                  THEN [tunnels EXCEPT ![srv[s].id].active = TRUE]
                  ELSE tunnels
  /\ UNCHANGED <<sock, closes>>
  /\ UNCHANGED notTunnelVars

\* lines 1509 and 1521-1526: the port is in use: the server emits error, the
\* catch starts closeTunnel(tunnelId) and rethrows
ListenFail(s) ==
  LET after == CloseStart([srv EXCEPT ![s].state = "failed"], srv[s].id)
  IN /\ srv[s].state = "binding"
     /\ PortBound(srv[s].port)
     /\ srv' = after[1]
     /\ sock' = after[2]
     /\ closes' = after[3]
     /\ UNCHANGED tunnels
     /\ UNCHANGED notTunnelVars

\* part_000 line 2157 with lines 1530-1556: the closeTunnel tool; a tunnel id
\* that the map does not hold returns false
CloseTunnelTool(id) ==
  LET after == CloseStart(srv, id)
  IN /\ srv' = after[1]
     /\ sock' = after[2]
     /\ closes' = after[3]
     /\ UNCHANGED tunnels
     /\ UNCHANGED notTunnelVars

\* lines 1553-1564: server.close() called back, which it does once the
\* connections of the server have ended: isActive = false on the record the
\* call holds, and the tunnel id is deleted from the map
CloseFinish(id, s) ==
  /\ <<id, s>> \in closes
  /\ \A k \in Sockets : sock[k].srv = s => sock[k].local # "open"
  /\ tunnels' = [tunnels EXCEPT ![id] = NoTunnel]
  /\ closes' = closes \ {<<id, s>>}
  /\ UNCHANGED <<srv, sock>>
  /\ UNCHANGED notTunnelVars

\* lines 1444-1473: a local client connects to a listening server: the socket
\* is added to the set; without a client in the connection object it is
\* destroyed at once, else forwardOut is started on that client
Accept(k, s) ==
  /\ sock[k].local = "unused"
  /\ srv[s].state = "listening" /\ srv[s].hooked
  /\ sock' = [sock EXCEPT ![k] =
                IF ClientOf(s) = 0
                  THEN [srv |-> s, local |-> "destroyed", stream |-> "none",
                        hooked |-> TRUE, inSet |-> FALSE, client |-> 0]
                  ELSE [srv |-> s, local |-> "open", stream |-> "pending",
                        hooked |-> TRUE, inSet |-> TRUE, client |-> ClientOf(s)]]
  /\ UNCHANGED <<tunnels, srv, closes>>
  /\ UNCHANGED notTunnelVars

\* lines 1473-1499: forwardOut resolved with the stream of a channel of the
\* client: the two are piped and the close/error handlers are attached
ForwardOk(k) ==
  /\ sock[k].stream = "pending"
  /\ transport[sock[k].client] = "ready"
  /\ sock' = [sock EXCEPT ![k].stream = "open"]
  /\ UNCHANGED <<tunnels, srv, closes>>
  /\ UNCHANGED notTunnelVars

\* lines 1500-1504: forwardOut rejected
ForwardFail(k) ==
  /\ sock[k].stream = "pending"
  /\ sock' = [sock EXCEPT ![k].stream = "none", ![k].local = "destroyed",
                          ![k].inSet = FALSE]
  /\ UNCHANGED <<tunnels, srv, closes>>
  /\ UNCHANGED notTunnelVars

\* lines 1448-1450 and 1497-1499: the local client closed its socket: the
\* listeners that are still attached take it out of the set and destroy the
\* stream that was piped to it
SocketClose(k) ==
  /\ sock[k].local = "open"
  /\ sock' = [sock EXCEPT ![k].local = "destroyed",
                          ![k].inSet = IF sock[k].hooked THEN FALSE ELSE @,
                          ![k].stream = IF sock[k].hooked /\ @ = "open"
                                          THEN "destroyed" ELSE @]
  /\ UNCHANGED <<tunnels, srv, closes>>
  /\ UNCHANGED notTunnelVars

\* lines 1492-1495: the channel was closed by the far end or with its
\* transport: the socket is taken out of the set and destroyed
StreamClose(k) ==
  /\ sock[k].stream = "open"
  /\ sock' = [sock EXCEPT ![k].stream = "destroyed", ![k].local = "destroyed",
                          ![k].inSet = FALSE]
  /\ UNCHANGED <<tunnels, srv, closes>>
  /\ UNCHANGED notTunnelVars

(***************************************************************************)
(* Terminal sessions: SSHService.createTerminalSession / writeToTerminal / *)
(* closeTerminalSession                                                    *)
(***************************************************************************)
Channels == 1..NumChannels
WriteCalls == 1..NumWriteCalls

\* lines 1587-1590: md5 of terminal:connectionId:Date.now(), modelled by the
\* parts that differ between calls
SessionId(i, now) == <<i, now>>

SessionIds == {SessionId(i, now) : i \in ConnIds, now \in 0..MaxClock}

\* where the password of the connection of a session is found: in
\* connection.config.password, in the credential store only, or nowhere
PasswordSources == {"config", "store", "none"}

\* a shell channel with the session object that its handlers close over
NoSession == [state |-> "unused", hooked |-> FALSE, sid |-> <<>>, cid |-> <<>>,
              active |-> FALSE, prompt |-> FALSE, lastActivity |-> 0, pw |-> "none",
              pwOut |-> 0, dataOut |-> 0, detected |-> 0, reads |-> 0]
NoWriteCall == [pc |-> "idle", ob |-> 0, result |-> FALSE]

PtyInit ==
  /\ terminalSessions = [sid \in SessionIds |-> 0]
  /\ session = [ch \in Channels |-> NoSession]
  /\ wcall = [w \in WriteCalls |-> NoWriteCall]

FreeChannels == {ch \in Channels : session[ch].state = "unused"}

\* stream.write(password + "\n") on the stream of a session object
WritePassword(ss, ch) ==
  IF ss[ch].state = "open" THEN [ss EXCEPT ![ch].pwOut = @ + 1] ELSE ss

\* lines 1730-1733: stream.write(data); lastActivity = new Date()
WriteData(ss, ch) ==
  [ss EXCEPT ![ch].dataOut = IF ss[ch].state = "open" THEN @ + 1 ELSE @,
             ![ch].lastActivity = clock]

\* lines 1579-1620: the connection is available; the session id is made and
\* the shell request is sent on the client
CreateTerminalSession(i, src) ==
  LET ch == CHOOSE f \in FreeChannels : \A g \in FreeChannels : f <= g
  IN /\ Available(i)
     /\ FreeChannels # {}
     /\ session' = [session EXCEPT ![ch] =
                      [NoSession EXCEPT !.state = "opening", !.sid = SessionId(i, clock),
                                        !.cid = i, !.pw = src]]
     /\ UNCHANGED <<terminalSessions, wcall>>
     /\ UNCHANGED notPtyVars

\* lines 1613-1691: the shell channel opened: the session object is stored
\* under the session id and the data and close handlers are attached
ShellOk(ch) ==
  /\ session[ch].state = "opening"
  /\ session' = [session EXCEPT ![ch].state = "open", ![ch].hooked = TRUE,
                                ![ch].active = TRUE, ![ch].lastActivity = clock]
  /\ terminalSessions' = [terminalSessions EXCEPT ![session[ch].sid] = ch]
  /\ UNCHANGED wcall
  /\ UNCHANGED notPtyVars

\* lines 1614-1616 and 1692-1695: the shell request failed
ShellFail(ch) ==
  /\ session[ch].state = "opening"
  /\ session' = [session EXCEPT ![ch].state = "failed"]
  /\ UNCHANGED <<terminalSessions, wcall>>
  /\ UNCHANGED notPtyVars

\* lines 1678-1681: lastActivity of the session the map holds under the id
Touch(ss, sid) ==
  IF terminalSessions[sid] # 0
    THEN [ss EXCEPT ![terminalSessions[sid]].lastActivity = clock]
    ELSE ss

\* lines 1640-1682: a chunk of PTY output; with a password prompt in it the
\* flag is set and the password of the connection is written at once, or
\* after getCredentials when connection.config has none
PtyData(ch, isPrompt) ==
  LET flagged == [session EXCEPT ![ch].prompt = TRUE, ![ch].detected = @ + 1]
      answered ==
        IF ~conn[session[ch].cid].exists THEN flagged
        ELSE IF session[ch].pw = "config" THEN WritePassword(flagged, ch)
        ELSE [flagged EXCEPT ![ch].reads = @ + 1]
  IN /\ session[ch].state = "open" /\ session[ch].hooked
     /\ isPrompt => session[ch].detected < MaxPrompts
     /\ session' = Touch(IF isPrompt THEN answered ELSE session, session[ch].sid)
     /\ UNCHANGED <<terminalSessions, wcall>>
     /\ UNCHANGED notPtyVars

\* lines 1657-1664: getCredentials of the data handler resolved
CredentialsRead(ch) ==
  /\ session[ch].reads > 0
  /\ session' = [IF session[ch].pw = "store" THEN WritePassword(session, ch) ELSE session
                   EXCEPT ![ch].reads = @ - 1]
  /\ UNCHANGED <<terminalSessions, wcall>>
  /\ UNCHANGED notPtyVars

\* lines 1699-1735 up to the await of getCredentials: false without an active
\* session; with the prompt flag the flag is reset and the password of the
\* connection is written instead of the data; else the data is written
WriteToTerminal(w, sid) ==
  LET ch == terminalSessions[sid]
      reset == [session EXCEPT ![ch].prompt = FALSE]
  IN /\ wcall[w].pc = "idle"
     /\ IF ch = 0 \/ ~session[ch].active
          THEN /\ wcall' = [wcall EXCEPT ![w] = [pc |-> "done", ob |-> 0, result |-> FALSE]]
               /\ UNCHANGED session
          ELSE IF session[ch].prompt /\ conn[session[ch].cid].exists
                  /\ session[ch].pw = "config"
            THEN /\ session' = WritePassword(reset, ch)
                 /\ wcall' = [wcall EXCEPT ![w] = [pc |-> "done", ob |-> ch, result |-> TRUE]]
          ELSE IF session[ch].prompt /\ conn[session[ch].cid].exists
            THEN /\ session' = reset
                 /\ wcall' = [wcall EXCEPT ![w] = [pc |-> "creds", ob |-> ch, result |-> FALSE]]
          ELSE /\ session' = WriteData(IF session[ch].prompt THEN reset ELSE session, ch)
               /\ wcall' = [wcall EXCEPT ![w] = [pc |-> "done", ob |-> ch, result |-> TRUE]]
     /\ UNCHANGED terminalSessions
     /\ UNCHANGED notPtyVars

\* lines 1716-1735: getCredentials resolved: the stored password is written,
\* or the data when there is none
WriteAfterCredentials(w) ==
  LET ch == wcall[w].ob
  IN /\ wcall[w].pc = "creds"
     /\ session' = IF session[ch].pw = "store"
                     THEN WritePassword(session, ch) ELSE WriteData(session, ch)
     /\ wcall' = [wcall EXCEPT ![w].pc = "done", ![w].result = TRUE]
     /\ UNCHANGED terminalSessions
     /\ UNCHANGED notPtyVars

\* line 1785 kept out of closeTerminalSession: the record stays in the map
KeepSession(map, sid) == map

\* line 1785: this.terminalSessions.delete(sessionId)
EraseSession(map, sid) == [map EXCEPT ![sid] = 0]

\* lines 1768-1790: closeTerminalSession(sid): nothing without a record; the
\* stream of an active session loses its listeners and is ended, the session
\* is marked inactive, and the record is deleted. Yields <<map, sessions>>.
CloseTerminalSession(sid) ==
  LET ch == terminalSessions[sid]
  IN IF ch = 0
       THEN <<terminalSessions, session>>
       ELSE << EraseSession(terminalSessions, sid),
               IF session[ch].active
                 THEN [session EXCEPT ![ch].hooked = FALSE, ![ch].active = FALSE,
                                      ![ch].state = IF @ = "open" THEN "ended" ELSE @]
                 ELSE session >>

\* lines 1768-1795: closeTerminalSession called through the service (close()
\* of the broker, part_000 line 2263)
CloseTerminalSessionCall(sid) ==
  /\ terminalSessions' = CloseTerminalSession(sid)[1]
  /\ session' = CloseTerminalSession(sid)[2]
  /\ UNCHANGED wcall
  /\ UNCHANGED notPtyVars

\* lines 1685-1689: the channel closed (the shell exited, the transport went
\* away, or the end() of closeTerminalSession was answered); the close handler,
\* when it is still attached, runs closeTerminalSession of the session id
ChannelClose(ch) ==
  LET closed == CloseTerminalSession(session[ch].sid)
  IN /\ session[ch].state \in {"open", "ended"}
     /\ IF session[ch].hooked
          THEN /\ terminalSessions' = closed[1]
               /\ session' = [closed[2] EXCEPT ![ch].state = "closed"]
          ELSE /\ session' = [session EXCEPT ![ch].state = "closed"]
               /\ UNCHANGED terminalSessions
     /\ UNCHANGED wcall
     /\ UNCHANGED notPtyVars

(***************************************************************************)
(* File transfers: SSHService.uploadFile / downloadFile and the tools that *)
(* call them                                                               *)
(***************************************************************************)
Transfers == 1..NumTransfers
FileSizes == 0..MaxSize

\* a call of the uploadFile or downloadFile tool with the FileTransferInfo
\* object, the two streams and the byte counter that it creates; the
\* transfer ids of different calls are taken to differ
NoTransfer == [pc |-> "idle", dir |-> "upload", status |-> "none", inMap |-> FALSE,
               size |-> 0, bytesTransferred |-> 0, progress |-> 0, failure |-> FALSE,
               counted |-> 0, rs |-> "none", ws |-> "none", sub |-> FALSE]

XferInit == xfer = [t \in Transfers |-> NoTransfer]

\* Math.round(x) of a ratio x = num / den that is not negative
Round(num, den) == (2 * num + den) \div (2 * den)

\* lines 1056 and 1202 without Math.min: Math.round((bytes / size) * 100);
\* a size of 0 gives Infinity, which stands above every percentage here
ProgressUnclamped(bytes, size) ==
  IF size = 0 THEN 101 ELSE Round(bytes * 100, size)

\* lines 1056 and 1202: Math.min(100, Math.round((bytes / size) * 100))
Progress(bytes, size) ==
  IF size = 0 \/ Round(bytes * 100, size) > 100 THEN 100 ELSE Round(bytes * 100, size)

\* part_000 lines 1218-1260 and 1324-1366: the run of the tool after the
\* await of uploadFile / downloadFile: onTransferProgress registers the
\* listener, the result is read and the finally block takes the listener off
ToolReturns(r) == [[r EXCEPT !.sub = TRUE] EXCEPT !.pc = "done", !.sub = FALSE]

\* lines 1095-1128 and 1242-1276: the catch of the call: the record in the
\* map is marked failed, or a failed record of size 0 is stored
Caught(r) ==
  ToolReturns(IF r.inMap
                THEN [r EXCEPT !.status = "failed", !.failure = TRUE]
                ELSE [r EXCEPT !.status = "failed", !.failure = TRUE, !.inMap = TRUE,
                               !.size = 0, !.bytesTransferred = 0, !.progress = 0])

\* lines 1038-1045 and 1184-1191: status in-progress, the two streams exist
Streaming(r) ==
  [r EXCEPT !.status = "in-progress", !.rs = "open", !.ws = "open", !.pc = "streaming"]

\* part_000 lines 1179-1217 with lines 998-1034: the uploadFile tool on an
\* available connection: stat of the local path, record stored as pending,
\* requestSFTP awaited; a path that is no file goes to the catch
UploadFile(t, i, sz, isFile) ==
  /\ xfer[t].pc = "idle"
  /\ Available(i)
  /\ xfer' = [xfer EXCEPT ![t] =
                IF isFile
                  THEN [NoTransfer EXCEPT !.pc = "sftp", !.status = "pending",
                                          !.inMap = TRUE, !.size = sz]
                  ELSE Caught(NoTransfer)]
  /\ UNCHANGED notXferVars

\* part_000 lines 1284-1323 with lines 1133-1153: the downloadFile tool on an
\* available connection: requestSFTP awaited, no record yet
DownloadFile(t, i) ==
  /\ xfer[t].pc = "idle"
  /\ Available(i)
  /\ xfer' = [xfer EXCEPT ![t] = [NoTransfer EXCEPT !.pc = "sftp", !.dir = "download"]]
  /\ UNCHANGED notXferVars

\* lines 1034-1045 and 1153-1156: requestSFTP resolved: an upload starts its
\* streams, a download asks for the size of the remote file
SftpOk(t) ==
  /\ xfer[t].pc = "sftp"
  /\ xfer' = [xfer EXCEPT ![t] = IF xfer[t].dir = "upload" THEN Streaming(xfer[t])
                                 ELSE [xfer[t] EXCEPT !.pc = "stat"]]
  /\ UNCHANGED notXferVars

\* lines 1034 and 1153 with the catch: requestSFTP rejected
SftpFail(t) ==
  /\ xfer[t].pc = "sftp"
  /\ xfer' = [xfer EXCEPT ![t] = Caught(xfer[t])]
  /\ UNCHANGED notXferVars

\* lines 1156-1191: sftp.stat answered: the record is stored with the size
\* and the streams are started
StatOk(t, sz) ==
  /\ xfer[t].pc = "stat"
  /\ xfer' = [xfer EXCEPT ![t] = Streaming([xfer[t] EXCEPT !.inMap = TRUE, !.size = sz])]
  /\ UNCHANGED notXferVars

\* lines 1157-1161 with the catch: sftp.stat failed
StatFail(t) ==
  /\ xfer[t].pc = "stat"
  /\ xfer' = [xfer EXCEPT ![t] = Caught(xfer[t])]
  /\ UNCHANGED notXferVars

\* lines 1051-1060 and 1197-1206: the read stream delivers a chunk of n
\* bytes of the file as it is now: the counter goes up, bytesTransferred and
\* progress are set and transfer-progress is emitted
ReadData(t, n) ==
  /\ xfer[t].rs = "open"
  /\ xfer[t].counted + n <= MaxBytes
  /\ xfer' = [xfer EXCEPT ![t].counted = @ + n,
                          ![t].bytesTransferred = xfer[t].counted + n,
                          ![t].progress = Progress(xfer[t].counted + n, xfer[t].size)]
  /\ UNCHANGED notXferVars

\* line 1091 and 1238: the read stream reached the end of the file: the pipe
\* ends the write stream
ReadEnd(t) ==
  /\ xfer[t].rs = "open"
  /\ xfer' = [xfer EXCEPT ![t].rs = "ended",
                          ![t].ws = IF @ = "open" THEN "ending" ELSE @]
  /\ UNCHANGED notXferVars

\* a stream error rejects the promise of lines 1036 and 1182: the catch runs
\* when the call still awaits it
Rejected(r) == IF r.pc = "streaming" THEN Caught(r) ELSE r

\* lines 1063-1069 and 1209-1216: the read stream failed: status failed; a
\* download closes its write stream
ReadError(t) ==
  /\ xfer[t].rs = "open"
  /\ xfer' = [xfer EXCEPT ![t] =
                Rejected([xfer[t] EXCEPT !.rs = "errored", !.status = "failed",
                                         !.failure = TRUE,
                                         !.ws = IF xfer[t].dir = "download" /\ @ = "open"
                                                  THEN "ending" ELSE @])]
  /\ UNCHANGED notXferVars

\* lines 1071-1078 and 1218-1225: the write stream failed: status failed, the
\* read stream is destroyed
WriteError(t) ==
  /\ xfer[t].ws \in {"open", "ending"}
  /\ xfer' = [xfer EXCEPT ![t] =
                Rejected([xfer[t] EXCEPT !.ws = "errored", !.status = "failed",
                                         !.failure = TRUE,
                                         !.rs = IF @ = "open" THEN "destroyed" ELSE @])]
  /\ UNCHANGED notXferVars

\* lines 1081-1088 and 1228-1235: the write stream emitted close, after it
\* was ended or closed, or after its error: status completed, progress 100,
\* bytesTransferred = size; the call returns when it still awaits
WriteClose(t) ==
  LET r == [xfer[t] EXCEPT !.ws = "closed", !.status = "completed", !.progress = 100,
                           !.bytesTransferred = xfer[t].size]
  IN /\ xfer[t].ws \in {"ending", "errored"}
     /\ xfer' = [xfer EXCEPT ![t] = IF r.pc = "streaming" THEN ToolReturns(r) ELSE r]
     /\ UNCHANGED notXferVars

(***************************************************************************)
(* Batch transfers: SSHService.batchTransfer and the batchUploadFiles /    *)
(* batchDownloadFiles tools                                                *)
(***************************************************************************)
Items == 1..MaxItems

\* what fs.statSync(localPath) finds for the local path of an upload item
ItemSizes == 0..MaxItemSize
LocalFiles == {[isFile |-> FALSE, size |-> 0]} \cup [isFile : {TRUE}, size : ItemSizes]

\* the tool call with the locals of batchTransfer: the item that is awaited
\* (k), transferIds (as the set of the items whose id was pushed; the ids are
\* pushed in the order of the items) and errors.length
NoBatch == [pc |-> "idle", id |-> <<>>, dir |-> "upload", n |-> 0, k |-> 0, ids |-> {}, errors |-> 0, result |-> "none",
            successCount |-> 0, failedCount |-> 0]

BatchInit ==
  /\ batch = NoBatch
  /\ item = [k \in Items |-> NoTransfer]

\* lines 1095-1128 and 1242-1276: the catch of uploadFile / downloadFile marks
\* the record in the map failed, or stores a failed record of size 0, and
\* returns the record
FailedTransfer(r) ==
  IF r.inMap
    THEN [r EXCEPT !.status = "failed", !.failure = TRUE, !.pc = "done"]
    ELSE [r EXCEPT !.status = "failed", !.failure = TRUE, !.pc = "done", !.inMap = TRUE,
                   !.size = 0, !.bytesTransferred = 0, !.progress = 0]

\* lines 1311-1317 with part_000 lines 1436-1444 and 1499-1507: after the
\* loop batchTransfer throws when every item threw, and the tool returns the
\* error; else the tool goes on with the ids and starts its interval
AfterLoop(b) ==
  IF b.errors = b.n
    THEN [b EXCEPT !.pc = "done", !.k = 0, !.result = "batch failed"]
    ELSE IF b.ids = {}
      THEN [b EXCEPT !.pc = "done", !.k = 0, !.result = "nothing transferred"]
      ELSE [b EXCEPT !.pc = "polling", !.k = 0]

\* lines 1292-1309: the loop from item k on, up to the next await of an I/O
\* completion: uploadFile / downloadFile throws when the connection is not
\* available (lines 999-1001, 1135-1137) and the error is pushed; an upload
\* of a path that is no file returns a failed record at once and its id is
\* pushed; else the item awaits requestSFTP. files[k] is what statSync finds
\* for the local path of item k in this run
RECURSIVE LoopFrom(_, _, _, _)
LoopFrom(b, it, k, files) ==
  IF k > b.n THEN <<AfterLoop(b), it>>
  ELSE IF ~Available(b.id)
    THEN LoopFrom([b EXCEPT !.errors = @ + 1], [it EXCEPT ![k].pc = "threw"], k + 1,
                  files)
  ELSE IF b.dir = "upload" /\ ~files[k].isFile
    THEN LoopFrom([b EXCEPT !.ids = @ \cup {k}],
                  [it EXCEPT ![k] = FailedTransfer(NoTransfer)], k + 1, files)
  ELSE IF b.dir = "upload"
    THEN <<[b EXCEPT !.k = k],
           [it EXCEPT ![k] = [NoTransfer EXCEPT !.pc = "sftp", !.status = "pending",
                                                !.inMap = TRUE,
                                                !.size = files[k].size]]>>
  ELSE <<[b EXCEPT !.k = k],
         [it EXCEPT ![k] = [NoTransfer EXCEPT !.pc = "sftp", !.dir = "download"]]>>

\* part_000 lines 1391-1434 and 1521-1586 with lines 1280-1290: the tool on a
\* connection that the tool layer finds connected, with local files that
\* exist; batchDownloadFiles returns an error for an empty list, and
\* batchTransfer throws when the connection is not available
BatchTransferTool(i, dir, n, files) ==
  LET b == [NoBatch EXCEPT !.pc = "running", !.id = i, !.dir = dir, !.n = n]
      run == LoopFrom(b, item, 1, files)
  IN /\ batch.pc = "idle"
     /\ StatusConnected(i)
     /\ IF dir = "download" /\ n = 0
          THEN /\ batch' = [b EXCEPT !.pc = "done", !.result = "no items"]
               /\ UNCHANGED item
          ELSE IF ~Available(i)
            THEN /\ batch' = [b EXCEPT !.pc = "done", !.result = "unavailable"]
                 /\ UNCHANGED item
            ELSE /\ batch' = run[1]
                 /\ item' = run[2]
     /\ UNCHANGED notBatchVars

\* an event of item k leaves it with the record r: when uploadFile /
\* downloadFile returns by it (lines 1093, 1240 or the catch), batchTransfer
\* pushes the id (line 1302) and goes on with the next item
ItemStep(k, r) ==
  /\ IF item[k].pc \notin {"done", "threw"} /\ r.pc = "done"
       THEN \E files \in [Items -> LocalFiles] :
              LET run == LoopFrom([batch EXCEPT !.ids = @ \cup {k}],
                                  [item EXCEPT ![k] = r], k + 1, files)
              IN batch' = run[1] /\ item' = run[2]
       ELSE /\ item' = [item EXCEPT ![k] = r]
            /\ UNCHANGED batch
  /\ UNCHANGED notBatchVars

\* lines 1034-1045 and 1153-1156: requestSFTP resolved
ItemSftpOk(k) ==
  /\ item[k].pc = "sftp"
  /\ ItemStep(k, IF item[k].dir = "upload" THEN Streaming(item[k])
                 ELSE [item[k] EXCEPT !.pc = "stat"])

\* lines 1034 and 1153 with the catch: requestSFTP rejected
ItemSftpFail(k) ==
  /\ item[k].pc = "sftp"
  /\ ItemStep(k, FailedTransfer(item[k]))

\* lines 1156-1191: sftp.stat answered
ItemStatOk(k, sz) ==
  /\ item[k].pc = "stat"
  /\ ItemStep(k, Streaming([item[k] EXCEPT !.inMap = TRUE, !.size = sz]))

\* lines 1157-1161 with the catch: sftp.stat failed
ItemStatFail(k) ==
  /\ item[k].pc = "stat"
  /\ ItemStep(k, FailedTransfer(item[k]))

\* lines 1051-1060 and 1197-1206: a chunk of n bytes
ItemReadData(k, n) ==
  /\ item[k].rs = "open"
  /\ item[k].counted + n <= MaxItemBytes
  /\ ItemStep(k, [item[k] EXCEPT !.counted = @ + n,
                                 !.bytesTransferred = item[k].counted + n,
                                 !.progress = Progress(item[k].counted + n, item[k].size)])

\* lines 1091 and 1238: end of the file, the pipe ends the write stream
ItemReadEnd(k) ==
  /\ item[k].rs = "open"
  /\ ItemStep(k, [item[k] EXCEPT !.rs = "ended",
                                 !.ws = IF @ = "open" THEN "ending" ELSE @])

\* a stream error rejects the promise of lines 1036 and 1182: the catch runs
\* when the call still awaits it
ItemRejected(r) == IF r.pc = "streaming" THEN FailedTransfer(r) ELSE r

\* lines 1063-1069 and 1209-1216: the read stream failed; a download closes
\* its write stream
ItemReadError(k) ==
  /\ item[k].rs = "open"
  /\ ItemStep(k, ItemRejected([item[k] EXCEPT
                    !.rs = "errored", !.status = "failed", !.failure = TRUE,
                    !.ws = IF item[k].dir = "download" /\ @ = "open"
                             THEN "ending" ELSE @]))

\* lines 1071-1078 and 1218-1225: the write stream failed
ItemWriteError(k) ==
  /\ item[k].ws \in {"open", "ending"}
  /\ ItemStep(k, ItemRejected([item[k] EXCEPT
                    !.ws = "errored", !.status = "failed", !.failure = TRUE,
                    !.rs = IF @ = "open" THEN "destroyed" ELSE @]))

\* lines 1081-1088 and 1228-1235: the write stream emitted close: status
\* completed, progress 100, bytesTransferred = size; the call returns the
\* record when it still awaits
ItemWriteClose(k) ==
  LET r == [item[k] EXCEPT !.ws = "closed", !.status = "completed", !.progress = 100,
                           !.bytesTransferred = item[k].size]
  IN /\ item[k].ws \in {"ending", "errored"}
     /\ ItemStep(k, IF r.pc = "streaming" THEN [r EXCEPT !.pc = "done"] ELSE r)

\* part_000 lines 1471-1497 and 1623-1649: a tick of the interval of the
\* tool: when every id has a record that is completed or failed, the interval
\* is cleared and the tool returns the two counts
BatchPoll ==
  /\ batch.pc = "polling"
  /\ IF \A k \in batch.ids : item[k].status \in {"completed", "failed"}
       THEN batch' = [batch EXCEPT
              !.pc = "done", !.result = "counts",
              !.successCount = Cardinality({k \in batch.ids : item[k].status = "completed"}),
              !.failedCount = Cardinality({k \in batch.ids : item[k].status = "failed"})]
       ELSE UNCHANGED batch
  /\ UNCHANGED item
  /\ UNCHANGED notBatchVars

\* the state after construction, but for the back-end of the credentials
\* the words of the command lines that start with a dash
DashWords == {"-w", "--workdir", "-u", "--user", "-e", "--env", "-it", "-p", "-v", "--name"}

\* the command lines that callers pass to executeCommand
Commands ==
  { <<"ls">>, <<"sudo", "id">>, <<"cd", "/tmp">>,
    <<"docker", "exec", "-w", "/srv", "-u", "www", "web", "ls">>,
    <<"docker", "exec", "web", "ls", "&&", "pwd">>,
    <<"docker", "exec", "-w", "/srv", "web", "ls", "&&", "id", ";",
      "docker", "exec", "db", "ls">> }

\* SSHExecCommandResponse.code: an exit code, or null (Null) when the remote
\* process was ended by a signal
Null == 256
ExitCodes == {0, 1, Null}

\* what a command prints before it ends or is given up
Outputs == {"out"}

\* the container names and connection ids that callers of the context
\* manager pass; the second id is of a connection of another host
Containers == {"web", "db"}
CtxConns == ConnIds \cup {<<"u", "g", DefaultPort>>}
CtxKeys == (ConnIds \X Containers) \cup {<<<<"u", "g", DefaultPort>>, "web">>}

\* regularCommands.join(' && ')
JoinAnd(cmds) ==
  LET RECURSIVE J(_)
      J(k) == IF k > Len(cmds) THEN << >>
              ELSE IF k = 1 THEN cmds[1] \o J(2)
              ELSE <<"&&">> \o cmds[k] \o J(k + 1)
  IN  J(1)

DigitChars == <<"0", "1", "2", "3", "4", "5", "6", "7", "8", "9">>

\* the texts handed to the truncator: every length around maxLength, and
\* letters that depend on the position
TextLengths == {0, 1} \cup ((10000 - MaxExtra)..(10000 + MaxExtra))
Text(n, p) == [k \in 1..n |-> DigitChars[((k * p) % 7) + 1]]
Texts == {Text(n, p) : n \in TextLengths, p \in 1..NumPatterns}
\* ---------------------------------------------------------------------
\* Docker command parser, container contexts and the command engine
\* (ssh-service.ts lines 539-737 and 2072-2409, container-context.ts).
\* A command line is the sequence of its whitespace-separated words; the
\* separators &&, || and ; are words of their own.
\* ---------------------------------------------------------------------

Separators == {"&&", "||", ";"}

\* the session map of the ContainerContextManager, in insertion order
\* (lines 26, 45): a Map keeps the position of a key that is set again
NoSessions == << >>

\* lines 2074, 2133-2135: DOCKER_EXEC_REGEX is not anchored: it matches when
\* the words docker exec are followed by at least two more words (the option
\* group may match nothing, the container is then the next word)
IsDockerExecCommand(t) ==
  \E p \in 1..Len(t) : p + 3 <= Len(t) /\ t[p] = "docker" /\ t[p + 1] = "exec"

\* The values of environment variables are the text v inside a number of
\* pairs of double quotes, and the words key=value are those of the key K;
\* the two lists hold the texts that the template literals below produce
\* from each other.
Values == <<"v", "\"v\"", "\"\"v\"\"", "\"\"\"v\"\"\"", "\"\"\"\"v\"\"\"\"">>
Assignments == <<"K=v", "K=\"v\"", "K=\"\"v\"\"", "K=\"\"\"v\"\"\"",
                 "K=\"\"\"\"v\"\"\"\"">>

\* the place of a value in the list
Depth(value) == CHOOSE n \in 1..Len(Values) : Values[n] = value

\* container-context.ts line 243: "${value}"; the list ends with the value
\* of most quotes that a run produces
Quote(value) ==
  IF Depth(value) < Len(Values) THEN Values[Depth(value) + 1] ELSE value

\* line 2378 and container-context.ts line 243: `${key}=...`
Assignment(key, value) == Assignments[Depth(value)]

\* lines 2205-2209: envVar.includes('=') and envVar.split('=', 2); env[key]
\* = value keeps the place of a key that the object has
SetEnv(env, envVar) ==
  IF \E n \in 1..Len(Assignments) : Assignments[n] = envVar
    THEN LET n == CHOOSE m \in 1..Len(Assignments) : Assignments[m] = envVar
             e == [key |-> "K", value |-> Values[n]]
         IN  IF \E k \in 1..Len(env) : env[k].key = e.key
               THEN [k \in 1..Len(env) |-> IF env[k].key = e.key THEN e ELSE env[k]]
               ELSE Append(env, e)
    ELSE env

\* lines 2180-2247: parseDockerExecCommand; null is [ok |-> FALSE]
ParseDockerExecCommand(parts) ==
  LET RECURSIVE Options(_, _)
      \* the while loop of lines 2195-2223 from word i with the record d
      Options(i, d) ==
        IF i > Len(parts) \/ parts[i] \notin DashWords THEN [i |-> i, d |-> d]
        ELSE LET o == parts[i]
                 arg == i + 1 <= Len(parts)
             IN  IF o \in {"-w", "--workdir"}
                   THEN Options(IF arg THEN i + 2 ELSE i + 1,
                                IF arg THEN [d EXCEPT !.workdir = parts[i + 1]] ELSE d)
                 ELSE IF o \in {"-u", "--user"}
                   THEN Options(IF arg THEN i + 2 ELSE i + 1,
                                IF arg THEN [d EXCEPT !.user = parts[i + 1]] ELSE d)
                 ELSE IF o \in {"-e", "--env"}
                   THEN Options(IF arg THEN i + 2 ELSE i + 1,
                                IF arg THEN [d EXCEPT !.env = SetEnv(@, parts[i + 1])] ELSE d)
                 ELSE IF o \in {"-p", "-v", "--name"} /\ arg /\ parts[i + 1] \notin DashWords
                   THEN Options(i + 2, [d EXCEPT !.options = @ \o <<o, parts[i + 1]>>])
                 ELSE Options(i + 1, [d EXCEPT !.options = Append(@, o)])
      none == [ok |-> FALSE]
      r == Options(3, [ok |-> TRUE, containerName |-> Undefined, command |-> << >>,
                       options |-> << >>, workdir |-> Undefined, user |-> Undefined,
                       env |-> << >>])
  IN  IF Len(parts) < 3 \/ parts[1] # "docker" \/ parts[2] # "exec" THEN none
      ELSE IF r.i >= Len(parts) THEN none
      ELSE [r.d EXCEPT !.containerName = parts[r.i],
                       !.command = SubSeq(parts, r.i + 1, Len(parts))]

\* lines 2077, 2140-2142: DOCKER_RUN_REGEX is not anchored: it matches when
\* the words docker run are followed by a word, the image
IsDockerRunCommand(t) ==
  \E p \in 1..Len(t) : p + 2 <= Len(t) /\ t[p] = "docker" /\ t[p + 1] = "run"

\* lines 2085-2175: parseCommand and parseCompoundCommand
ParseCommand(t) ==
  LET RECURSIVE Split(_, _, _)
      \* command.split(COMPOUND_SEPARATORS): the parts of t from word i on,
      \* cur being the part under construction
      Split(i, cur, acc) ==
        IF i > Len(t) THEN Append(acc, cur)
        ELSE IF t[i] \in Separators THEN Split(i + 1, << >>, Append(acc, cur))
        ELSE Split(i + 1, Append(cur, t[i]), acc)
      parts == Split(1, << >>, << >>)
      RECURSIVE Sort(_, _)
      \* the loop of lines 2153-2166 from part k with the lists so far
      Sort(k, p) ==
        IF k > Len(parts) THEN p
        ELSE IF parts[k] = << >> THEN Sort(k + 1, p)
        ELSE IF IsDockerExecCommand(parts[k])
          THEN LET d == ParseDockerExecCommand(parts[k])
               IN  Sort(k + 1, IF d.ok THEN [p EXCEPT !.dockerCommands = Append(@, d),
                                                      !.hasDockerExec = TRUE]
                                        ELSE p)
        ELSE Sort(k + 1, [p EXCEPT !.regularCommands = Append(@, parts[k])])
      c == Sort(1, [dockerCommands |-> << >>, regularCommands |-> << >>,
                    hasDockerExec |-> FALSE])
      d1 == ParseDockerExecCommand(t)
  IN  IF \E i \in 1..Len(t) : t[i] \in Separators
        THEN [type |-> "compound", dockerCommands |-> c.dockerCommands,
              regularCommands |-> c.regularCommands,
              needsContainerContext |-> c.hasDockerExec /\ Len(c.regularCommands) > 0]
      ELSE IF IsDockerExecCommand(t)
        THEN [type |-> "docker_exec",
              dockerCommands |-> IF d1.ok THEN <<d1>> ELSE << >>,
              regularCommands |-> << >>, needsContainerContext |-> FALSE]
      ELSE IF IsDockerRunCommand(t)
        THEN [type |-> "docker_run", dockerCommands |-> << >>, regularCommands |-> <<t>>,
              needsContainerContext |-> FALSE]
      ELSE [type |-> "regular", dockerCommands |-> << >>, regularCommands |-> <<t>>,
            needsContainerContext |-> FALSE]

\* lines 2376-2380: the words -e key=value of the entries, in insertion
\* order
EnvWords(env) ==
  LET RECURSIVE W(_)
      W(k) == IF k > Len(env) THEN << >>
              ELSE <<"-e", Assignment(env[k].key, env[k].value)>> \o W(k + 1)
  IN  W(1)

\* container-context.ts lines 241-245: the words -e key="value"
QuotedEnvWords(env) ==
  LET RECURSIVE W(_)
      W(k) == IF k > Len(env) THEN << >>
              ELSE <<"-e", Assignment(env[k].key, Quote(env[k].value))>> \o W(k + 1)
  IN  W(1)

\* the optional words of a value that may be missing
Opt(flag, v) == IF v = Undefined THEN << >> ELSE <<flag, v>>

\* lines 2357-2386: buildDockerExecCommand, which lines 661-663 reach through
\* buildContainerCommand with a single docker command
BuildDockerExecCommand(d) ==
  <<"docker", "exec">> \o d.options \o Opt("-w", d.workdir) \o Opt("-u", d.user)
    \o EnvWords(d.env) \o <<d.containerName>> \o d.command

\* container-context.ts lines 217-251 without lines 231-233: the working
\* directory of the session is left out
BuildContainerExecCommandNoWorkdir(containerName, command, ctx) ==
  <<"docker", "exec">>
    \o (IF ctx.found THEN Opt("-u", ctx.user) \o QuotedEnvWords(ctx.environment)
        ELSE << >>)
    \o <<containerName>> \o command

\* container-context.ts lines 217-251 without lines 236-238: the user of the
\* session is left out
BuildContainerExecCommandNoUser(containerName, command, ctx) ==
  <<"docker", "exec">>
    \o (IF ctx.found THEN Opt("-w", ctx.workingDirectory)
                          \o QuotedEnvWords(ctx.environment)
        ELSE << >>)
    \o <<containerName>> \o command

\* container-context.ts lines 217-251: buildContainerExecCommand, not
\* interactive; ctx is what getContainerContext found
BuildContainerExecCommand(containerName, command, ctx) ==
  <<"docker", "exec">>
    \o (IF ctx.found THEN Opt("-w", ctx.workingDirectory) \o Opt("-u", ctx.user)
                          \o QuotedEnvWords(ctx.environment)
        ELSE << >>)
    \o <<containerName>> \o command

\* container-context.ts lines 34-54: setContainerContext at time t
SetContainerContext(ss, i, c, w, u, env, t) ==
  LET s == [connectionId |-> i, containerName |-> c,
            workingDirectory |-> IF w = Undefined THEN "/root" ELSE w,
            environment |-> env, user |-> u, lastActivity |-> t, isActive |-> TRUE]
  IN  IF \E k \in 1..Len(ss) : ss[k].connectionId = i /\ ss[k].containerName = c
        THEN [k \in 1..Len(ss) |->
                IF ss[k].connectionId = i /\ ss[k].containerName = c THEN s ELSE ss[k]]
        ELSE Append(ss, s)

\* container-context.ts lines 43, 88, 104, 122, 195: s is the session that
\* the key connectionId:containerName names
IsSession(s, i, c) == s.connectionId = i /\ s.containerName = c

\* container-context.ts lines 160-174 without session.isActive in line 165
GetActiveContainerAnySession(ss, i) ==
  LET RECURSIVE Scan(_, _, _)
      Scan(k, latestActivity, activeContainer) ==
        IF k > Len(ss) THEN activeContainer
        ELSE IF ss[k].connectionId = i /\ ss[k].lastActivity > latestActivity
          THEN Scan(k + 1, ss[k].lastActivity, ss[k].containerName)
        ELSE Scan(k + 1, latestActivity, activeContainer)
  IN  Scan(1, 0, Undefined)

\* container-context.ts lines 160-174: getActiveContainer; null is Undefined
GetActiveContainer(ss, i) ==
  LET RECURSIVE Scan(_, _, _)
      Scan(k, latestActivity, activeContainer) ==
        IF k > Len(ss) THEN activeContainer
        ELSE IF ss[k].connectionId = i /\ ss[k].isActive
                /\ ss[k].lastActivity > latestActivity
          THEN Scan(k + 1, ss[k].lastActivity, ss[k].containerName)
        ELSE Scan(k + 1, latestActivity, activeContainer)
  IN  Scan(1, 0, Undefined)

\* container-context.ts lines 59-66: getContainerContext with a container name
GetContainerContext(ss, i, c) ==
  IF \E k \in 1..Len(ss) : ss[k].connectionId = i /\ ss[k].containerName = c
    THEN LET k == CHOOSE k \in 1..Len(ss) :
                    ss[k].connectionId = i /\ ss[k].containerName = c
         IN  [found |-> TRUE, workingDirectory |-> ss[k].workingDirectory,
              user |-> ss[k].user, environment |-> ss[k].environment]
    ELSE [found |-> FALSE]

\* lines 588-604: the sudo dispatch; pw: a password is in the config or in
\* the credential store
SudoRewrite(command, pw) ==
  LET RECURSIVE R(_)
      \* command.replace(/\bsudo\b/g, 'sudo -S')
      R(k) == IF k > Len(command) THEN << >>
              ELSE (IF command[k] = "sudo" THEN <<"sudo", "-S">> ELSE <<command[k]>>)
                     \o R(k + 1)
      sudo == \/ Len(command) >= 2 /\ command[1] = "sudo"
              \/ \E k \in 2..(Len(command) - 1) : command[k] = "sudo"
  IN  IF sudo /\ pw THEN <<"echo", "\"password\"", "|">> \o R(1) \o <<"2>/dev/null">>
      ELSE command

\* no executeCommand call in flight
NoCall ==
  [pc |-> "idle", conn |-> << >>, command |-> << >>, run |-> << >>, sent |-> << >>,
   timeout |-> FALSE, k |-> 0, out |-> << >>, log |-> << >>,
   collected |-> << >>, timedOut |-> FALSE, threw |-> FALSE,
   result |-> [stdout |-> << >>, stderr |-> "", code |-> 0]]

\* no command has run yet
NoPrev == [ran |-> FALSE, conn |-> << >>, run |-> << >>]

\* the service starts with no container session
EngInit ==
  /\ sessions = NoSessions
  /\ dateNow = 1
  /\ call = NoCall
  /\ prev = NoPrev
  /\ output = << >>

\* what the remote printed: nothing or a text; the outputs of several
\* commands are kept as the sequence of the texts that are not empty
Stdout(o) == IF o = "" THEN << >> ELSE <<o>>

\* lines 630-639 and 729-736: the catch blocks; so far is what the function
\* hands back as stdout, seen is what the remote had printed
CaughtResult(c, kind, sofar, seen) ==
  [c EXCEPT !.pc = "returned", !.threw = TRUE, !.timedOut = (kind = "timeout"),
            !.collected = seen,
            !.result = [stdout |-> sofar, stderr |-> kind, code |-> 1]]

\* lines 614-623 (also 679-685): the context of a parsed docker exec command
\* is stored at time t; updateActivity stores the same time again
ContextOf(ss, i, d, t) ==
  SetContainerContext(ss, i, d.containerName, d.workdir, d.user, d.env, t)

\* lines 539-607 (and 643-672 for a compound command that needs a container
\* context): executeCommand up to the first exec on the remote.  The call
\* that line 567 makes with the wrapped command runs in the same turn; the
\* wrapped command starts with docker exec and is not wrapped again.  prev
\* keeps the command of the call before this one.
ExecuteCommand(i, command, timeout, pw) ==
  /\ call.pc \in {"idle", "returned", "threw"}
  /\ dateNow < MaxTime
  /\ LET parsed == ParseCommand(command)
         activeContainer == GetActiveContainer(sessions, i)
         run == IF activeContainer # Undefined /\ parsed.type = "regular"
                  THEN BuildContainerExecCommand(activeContainer, command,
                         GetContainerContext(sessions, i, activeContainer))
                  ELSE command
         c == [NoCall EXCEPT !.conn = i, !.command = command, !.timeout = timeout]
     IN  call' =
           IF ~Available(i) THEN [c EXCEPT !.pc = "threw"]
           ELSE IF parsed.needsContainerContext
             THEN [c EXCEPT !.pc = "segment", !.k = 1, !.run = command,
                            !.sent = BuildDockerExecCommand(parsed.dockerCommands[1])]
           ELSE [c EXCEPT !.pc = "exec", !.run = run, !.sent = SudoRewrite(run, pw)]
  /\ prev' = IF call.pc = "idle" THEN prev
             ELSE [ran |-> call.pc = "returned" /\ ~call.threw, conn |-> call.conn,
                   run |-> call.run]
  /\ UNCHANGED <<sessions, dateNow, text, output, parse>>
  /\ UNCHANGED notEngVars

\* lines 607-629: execCommand resolved with an exit code and an output.  The
\* round trip to the remote takes time: the clock has advanced.
ExecReturns(code, o) ==
  /\ call.pc = "exec"
  /\ dateNow' = dateNow + 1
  /\ LET i == call.conn
         parsed == ParseCommand(call.run)
         c == [call EXCEPT !.log = Append(@, [sent |-> call.sent, code |-> code]),
                           !.collected = Stdout(o),
                           !.result = [stdout |-> Stdout(o), stderr |-> "", code |-> code]]
         cd == Len(call.sent) >= 2 /\ call.sent[1] = "cd"
     IN  /\ call' = IF cd
                      THEN IF Available(i) THEN [c EXCEPT !.pc = "pwd"]
                           ELSE CaughtResult(c, "error", << >>, Stdout(o))
                      ELSE [c EXCEPT !.pc = "returned"]
         /\ sessions' = IF ~cd /\ parsed.type = "docker_exec" /\ parsed.dockerCommands # << >>
                          THEN ContextOf(sessions, i, parsed.dockerCommands[1], dateNow')
                          ELSE sessions
  /\ UNCHANGED <<prev, text, output, parse>>
  /\ UNCHANGED notEngVars

\* lines 610-629 with 1361-1367: the pwd that follows a cd command answered
\* (o is '' when it failed): the directory is stored whatever the exit code
\* of the cd was
PwdReturns(o) ==
  /\ call.pc = "pwd"
  /\ dateNow' = dateNow + 1
  /\ call' = [call EXCEPT !.pc = "returned"]
  /\ currentDirectory' = [currentDirectory EXCEPT ![call.conn] = o]
  /\ UNCHANGED <<sessions, prev, text, output, parse>>
  /\ UNCHANGED <<lockVars, regVars, isDocker, persisted, creds, login, toolVars, tunnelVars,
               ptyVars, xferVars, batchVars>>

\* lines 672-691 and 694-713: a docker exec segment of a compound command has
\* run; the next segment, or the regular commands inside the container, or
\* the return of lines 723-727
SegmentReturns(code, o) ==
  /\ call.pc = "segment"
  /\ dateNow' = dateNow + 1
  /\ LET i == call.conn
         parsed == ParseCommand(call.command)
         dockerCmd == parsed.dockerCommands[call.k]
         lastExitCode == IF code = Null THEN 0 ELSE code
         ss == ContextOf(sessions, i, dockerCmd, dateNow')
         c == [call EXCEPT !.log = Append(@, [sent |-> call.sent, code |-> code]),
                           !.out = @ \o Stdout(o), !.collected = @ \o Stdout(o)]
         combinedRegularCommand == JoinAnd(parsed.regularCommands)
     IN  /\ sessions' = ss
         /\ call' =
              IF lastExitCode # 0
                THEN [c EXCEPT !.pc = "returned",
                               !.result = [stdout |-> c.out, stderr |-> "", code |-> lastExitCode]]
              ELSE IF conn[i].client = 0 THEN CaughtResult(c, "error", c.out, c.collected)
              ELSE IF call.k < Len(parsed.dockerCommands)
                THEN [c EXCEPT !.k = call.k + 1,
                               !.sent = BuildDockerExecCommand(parsed.dockerCommands[call.k + 1])]
              ELSE [c EXCEPT !.pc = "regular",
                             !.sent = BuildContainerExecCommand(dockerCmd.containerName,
                                        <<"sh", "-c", "\"">> \o combinedRegularCommand \o <<"\"">>,
                                        GetContainerContext(ss, i, dockerCmd.containerName))]
  /\ UNCHANGED <<prev, text, output, parse>>
  /\ UNCHANGED notEngVars

\* lines 713-727: the regular commands have run inside the container
RegularReturns(code, o) ==
  /\ call.pc = "regular"
  /\ dateNow' = dateNow + 1
  /\ LET parsed == ParseCommand(call.command)
         activeContainer == parsed.dockerCommands[Len(parsed.dockerCommands)].containerName
     IN  sessions' = [k \in 1..Len(sessions) |->
                        IF IsSession(sessions[k], call.conn, activeContainer)
                          THEN [sessions[k] EXCEPT !.lastActivity = dateNow']
                          ELSE sessions[k]]
  /\ call' = [call EXCEPT !.pc = "returned",
                          !.log = Append(@, [sent |-> call.sent, code |-> code]),
                          !.out = @ \o Stdout(o), !.collected = @ \o Stdout(o),
                          !.result = [stdout |-> call.out \o Stdout(o), stderr |-> "",
                                      code |-> IF code = Null THEN 0 ELSE code]]
  /\ UNCHANGED <<prev, text, output, parse>>
  /\ UNCHANGED notEngVars

\* lines 630-639 and 729-736: execCommand rejected, with a timeout when one
\* was set (lines 581-585, 668-670) or with an error of the channel, after
\* the remote had printed o
ExecRejects(kind, o) ==
  /\ call.pc \in {"exec", "segment", "regular"}
  /\ kind = "timeout" => call.timeout
  /\ dateNow' = dateNow + 1
  /\ call' = IF call.pc = "exec" THEN CaughtResult(call, kind, << >>, Stdout(o))
             ELSE CaughtResult(call, kind, call.out, call.collected \o Stdout(o))
  /\ UNCHANGED <<sessions, prev, text, output, parse>>
  /\ UNCHANGED notEngVars

\* ---- the operations of the ContainerContextManager, called one by one ----

\* container-context.ts lines 34-54 (called by enterContainer, line 2011)
SetContext(i, c, w) ==
  /\ sessions' = SetContainerContext(sessions, i, c, w, Undefined, << >>, dateNow)
  /\ UNCHANGED <<dateNow, call, prev, text, output, parse>>
  /\ UNCHANGED notEngVars

\* container-context.ts lines 87-94
UpdateActivity(i, c) ==
  /\ sessions' = [k \in 1..Len(sessions) |->
                    IF IsSession(sessions[k], i, c)
                      THEN [sessions[k] EXCEPT !.lastActivity = dateNow] ELSE sessions[k]]
  /\ UNCHANGED <<dateNow, call, prev, text, output, parse>>
  /\ UNCHANGED notEngVars

\* container-context.ts lines 99-111
UpdateWorkingDirectory(i, c, w) ==
  /\ sessions' = [k \in 1..Len(sessions) |->
                    IF IsSession(sessions[k], i, c)
                      THEN [sessions[k] EXCEPT !.workingDirectory = w, !.lastActivity = dateNow]
                      ELSE sessions[k]]
  /\ UNCHANGED <<dateNow, call, prev, text, output, parse>>
  /\ UNCHANGED notEngVars

\* container-context.ts lines 116-129: environment[key] = value, the pair
\* given as the word key=value
SetEnvironmentVariable(i, c, kv) ==
  /\ sessions' = [k \in 1..Len(sessions) |->
                    IF IsSession(sessions[k], i, c)
                      THEN [sessions[k] EXCEPT
                              !.environment = SetEnv(@, kv),
                              !.lastActivity = dateNow]
                      ELSE sessions[k]]
  /\ UNCHANGED <<dateNow, call, prev, text, output, parse>>
  /\ UNCHANGED notEngVars

\* container-context.ts lines 194-201 (called by exitContainer, line 2023)
CloseContainerSession(i, c) ==
  /\ sessions' = [k \in 1..Len(sessions) |->
                    IF IsSession(sessions[k], i, c)
                      THEN [sessions[k] EXCEPT !.isActive = FALSE] ELSE sessions[k]]
  /\ UNCHANGED <<dateNow, call, prev, text, output, parse>>
  /\ UNCHANGED notEngVars

\* container-context.ts lines 206-212 (called by exitContainer, line 2026)
CloseAllContainerSessions(i) ==
  /\ sessions' = [k \in 1..Len(sessions) |->
                    IF sessions[k].connectionId = i
                      THEN [sessions[k] EXCEPT !.isActive = FALSE] ELSE sessions[k]]
  /\ UNCHANGED <<dateNow, call, prev, text, output, parse>>
  /\ UNCHANGED notEngVars

\* container-context.ts lines 147-155 with a delete of the session in place
\* of line 152
CleanupDeletesSessions(age) ==
  /\ sessions' = SelectSeq(sessions, LAMBDA s : ~(s.lastActivity + age < dateNow))
  /\ UNCHANGED <<dateNow, call, prev, text, output, parse>>
  /\ UNCHANGED notEngVars

\* container-context.ts lines 147-155: cutoffTime is now - age, in minutes
CleanupInactiveSessions(age) ==
  /\ sessions' = [k \in 1..Len(sessions) |->
                    IF sessions[k].lastActivity + age < dateNow
                      THEN [sessions[k] EXCEPT !.isActive = FALSE] ELSE sessions[k]]
  /\ UNCHANGED <<dateNow, call, prev, text, output, parse>>
  /\ UNCHANGED notEngVars

\* time passes between two operations
TimePasses ==
  /\ dateNow < MaxTime
  /\ dateNow' = dateNow + 1
  /\ UNCHANGED <<sessions, call, prev, text, output, parse>>
  /\ UNCHANGED notEngVars

\* ---- the output truncator of the tool layer ----

\* the decimal digits of n, as `${omittedLength}` prints them
Digits(n) ==
  LET RECURSIVE D(_)
      D(m) == IF m < 10 THEN <<m>> ELSE Append(D(m \div 10), m % 10)
      d == D(n)
  IN  [k \in 1..Len(d) |-> DigitChars[d[k] + 1]]

\* part_000 lines 2289-2312 with maxLength for targetLength in line 2302
limitOutputLengthFromMax(t, maxLength, targetLength) ==
  IF Len(t) <= maxLength THEN t
  ELSE LET halfTargetLength == targetLength \div 2
           prefix == SubSeq(t, 1, halfTargetLength)
           suffix == SubSeq(t, Len(t) - halfTargetLength + 1, Len(t))
           omittedLength == Len(t) - maxLength
           omittedMessage == <<"[omitted ">> \o Digits(omittedLength) \o <<" characters, hints]">>
       IN  prefix \o omittedMessage \o suffix

\* part_000 lines 2289-2312: limitOutputLength; a text is the sequence of its
\* UTF-16 units, substring(a, b) is SubSeq(a + 1, b), and the fixed words of
\* the message are one unit each
limitOutputLength(t, maxLength, targetLength) ==
  IF Len(t) <= maxLength THEN t
  ELSE LET halfTargetLength == targetLength \div 2
           prefix == SubSeq(t, 1, halfTargetLength)
           suffix == SubSeq(t, Len(t) - halfTargetLength + 1, Len(t))
           omittedLength == Len(t) - targetLength
           omittedMessage == <<"[omitted ">> \o Digits(omittedLength) \o <<" characters, hints]">>
       IN  prefix \o omittedMessage \o suffix

\* part_000 line 1000: output = this.limitOutputLength(output)
LimitOutput ==
  /\ output = << >>
  /\ output' = limitOutputLength(text, 10000, 6000)
  /\ UNCHANGED <<sessions, dateNow, call, prev, text, parse>>
  /\ UNCHANGED notEngVars

\* ---- command lines handed to parseCommand, and the re-entry of
\* executeCommand with a wrapped command ----

\* the words of the command lines: an option, a container, a command, and
\* the two halves of a text in double quotes
LineWords == {"-it", "web", "ls", "\"a", "b\""}

\* the sequences of at most n words
Bodies(n) ==
  LET RECURSIVE B(_)
      B(k) == IF k = 0 THEN {<< >>}
              ELSE B(k - 1) \cup {Append(b, w) : b \in B(k - 1), w \in LineWords}
  IN  B(n)

\* the segments: words, after docker exec, echo docker exec, docker run or
\* nothing
Segments ==
  {pre \o b : pre \in {<< >>, <<"docker", "exec">>, <<"echo", "docker", "exec">>,
                        <<"docker", "run">>},
              b \in Bodies(MaxBody)}

\* the command lines: segments with a separator between two of them
CommandLines ==
  LET RECURSIVE L(_)
      L(n) == IF n = 1 THEN Segments
              ELSE L(n - 1) \cup {l \o <<sep>> \o sg :
                                    l \in L(n - 1), sep \in Separators, sg \in Segments}
  IN  L(MaxSegments)

\* what getContainerContext returns for the sessions that setContainerContext
\* makes: the working directory is never empty (container-context.ts line 48)
Contexts ==
  [found : {TRUE}, workingDirectory : {"/root", "/srv"}, user : {Undefined, "www"},
   environment : {<< >>, <<[key |-> "K", value |-> "v"]>>}]

\* parseCommand was not called
NoResult == [type |-> "none", dockerCommands |-> << >>, regularCommands |-> << >>,
             needsContainerContext |-> FALSE]
NoParse == [command |-> << >>, result |-> NoResult, wraps |-> 0]

\* lines 547 and 2085-2121: executeCommand parses the command line
ParseLine ==
  /\ parse.result = NoResult
  /\ parse' = [parse EXCEPT !.result = ParseCommand(parse.command)]
  /\ UNCHANGED <<sessions, dateNow, call, prev, text, output>>
  /\ UNCHANGED notEngVars

\* lines 554-567: with an active container c whose session is ctx, a regular
\* command is wrapped and executeCommand is called with the wrapped command
WrapLine(c, ctx) ==
  /\ parse.result.type = "regular"
  /\ parse.wraps < 2
  /\ parse' = [command |-> BuildContainerExecCommand(c, parse.command, ctx),
               result |-> NoResult, wraps |-> parse.wraps + 1]
  /\ UNCHANGED <<sessions, dateNow, call, prev, text, output>>
  /\ UNCHANGED notEngVars

Constructed ==
  LockInit /\ RegInit /\ ToolInit /\ TunnelInit /\ PtyInit /\ XferInit /\ BatchInit
  /\ EngInit

\* line 186: IS_DOCKER is not set: the credentials are kept in the keyring
Init == Constructed /\ isDocker = FALSE /\ text = << >> /\ parse = NoParse

LockSpec == Init /\ [][LockNext]_vars

\* the registry alone: connects, reconnect timers, disconnect, delete
RegNext ==
  \/ \E cfg \in Configs : ConnectCall(cfg)
  \/ \E c \in Clients : HandshakeOk(c) \/ HandshakeFail(c) \/ PwdDone(c, HomeDir)
  \/ \E i \in ConnIds, k \in 0..(ReconnectTries - 1) : ReconnectFire(i, k)
  \/ \E i \in ConnIds :
       \/ DisconnectTool(i) \/ DisconnectFinish(i) \/ DeleteTool(i) \/ DeleteFinish(i)
       \/ KeyringDeleted(i, TRUE)

RegSpec == Init /\ [][RegNext]_vars

\* the registry as the tool specifications use it: handshakes succeed
ConnectNext ==
  \/ \E cfg \in Configs : ConnectCall(cfg)
  \/ \E c \in Clients : HandshakeOk(c) \/ PwdDone(c, HomeDir)
  \/ \E i \in ConnIds :
       \/ DisconnectTool(i) \/ DisconnectFinish(i) \/ DeleteTool(i) \/ DeleteFinish(i)
       \/ KeyringDeleted(i, TRUE)

\* the executeCommand tool
ExecNext ==
  \/ ConnectNext
  \/ \E x \in ExecCalls :
       \/ \E i \in ConnIds, kind \in {"plain", "sendkeys"}, force \in BOOLEAN :
            ExecuteCommandTool(x, i, kind, force)
       \/ \E out \in ListPanesOutputs, tgt \in 0..2 : ListPanesDone(x, out, tgt)
       \/ \E st \in PsOutputs : PsDone(x, st)
       \/ \E child \in BOOLEAN : PgrepDone(x, child)
       \/ ProcInfoDone(x)
       \/ ContextDone(x)
       \/ \E res \in ExecResults : ExecDone(x, res)

ExecSpec == Init /\ [][ExecNext]_vars

\* background tasks next to executeCommand calls of commands that are not
\* tmux send-keys
BgNext ==
  \/ ConnectNext
  \/ \E x \in ExecCalls :
       \/ \E i \in ConnIds : ExecuteCommandTool(x, i, "plain", FALSE)
       \/ \E res \in ExecResults : ExecDone(x, res)
  \/ \E b \in BgCalls :
       \/ \E i \in ConnIds : BackgroundExecute(b, i)
       \/ BackgroundStarted(b)
  \/ \E t \in Timers : Tick(t) \/ \E ok \in BOOLEAN : TickDone(t, ok)
  \/ \E i \in ConnIds : StopBackgroundTool(i)

BgSpec == Init /\ [][BgNext]_vars

\* tunnels over the registry, with the clock that the tunnel ids are made of
TunnelNext ==
  \/ ConnectNext
  \/ ClockTick
  \/ \E i \in ConnIds, p \in LocalPorts : CreateTunnel(i, p)
  \/ \E s \in Servers : ListenOk(s) \/ ListenFail(s)
  \/ \E id \in TunnelIds : CloseTunnelTool(id)
  \/ \E id \in TunnelIds, s \in Servers : CloseFinish(id, s)
  \/ \E k \in Sockets, s \in Servers : Accept(k, s)
  \/ \E k \in Sockets : ForwardOk(k) \/ ForwardFail(k) \/ SocketClose(k) \/ StreamClose(k)

TunnelSpec == Init /\ [][TunnelNext]_vars

\* terminal sessions over the registry, with the clock that session ids and
\* lastActivity are made of
PtyNext ==
  \/ ConnectNext
  \/ ClockTick
  \/ \E i \in ConnIds, src \in PasswordSources : CreateTerminalSession(i, src)
  \/ \E ch \in Channels :
       \/ ShellOk(ch) \/ ShellFail(ch)
       \/ \E isPrompt \in BOOLEAN : PtyData(ch, isPrompt)
       \/ CredentialsRead(ch)
       \/ ChannelClose(ch)
  \/ \E w \in WriteCalls :
       \/ \E sid \in SessionIds : WriteToTerminal(w, sid)
       \/ WriteAfterCredentials(w)
  \/ \E sid \in SessionIds : CloseTerminalSessionCall(sid)

PtySpec == Init /\ [][PtyNext]_vars

\* file transfers over the registry
XferNext ==
  \/ ConnectNext
  \/ \E t \in Transfers :
       \/ \E i \in ConnIds, sz \in FileSizes, isFile \in BOOLEAN : UploadFile(t, i, sz, isFile)
       \/ \E i \in ConnIds : DownloadFile(t, i)
       \/ SftpOk(t) \/ SftpFail(t)
       \/ \E sz \in FileSizes : StatOk(t, sz)
       \/ StatFail(t)
       \/ \E n \in 1..MaxBytes : ReadData(t, n)
       \/ ReadEnd(t) \/ ReadError(t) \/ WriteError(t) \/ WriteClose(t)

XferSpec == Init /\ [][XferNext]_vars

\* batch transfers over the registry
BatchNext ==
  \/ \E cfg \in Configs : ConnectCall(cfg)
  \/ \E c \in Clients : HandshakeOk(c) \/ PwdDone(c, HomeDir)
  \/ \E i \in ConnIds : DisconnectTool(i) \/ DisconnectFinish(i)
  \/ \E i \in ConnIds, dir \in {"upload", "download"}, n \in 0..MaxItems :
       \E files \in [Items -> LocalFiles] : BatchTransferTool(i, dir, n, files)
  \/ \E k \in Items :
       \/ ItemSftpOk(k) \/ ItemSftpFail(k)
       \/ \E sz \in ItemSizes : ItemStatOk(k, sz)
       \/ ItemStatFail(k)
       \/ \E n \in 1..MaxItemBytes : ItemReadData(k, n)
       \/ ItemReadEnd(k) \/ ItemReadError(k) \/ ItemWriteError(k) \/ ItemWriteClose(k)
  \/ BatchPoll

BatchSpec == Init /\ [][BatchNext]_vars

\* the registry with the stores behind it: connects with every combination
\* of secrets and rememberPassword, on either back-end of the credentials
StoreNext ==
  \/ \E cfg \in Configs, lg \in Logins : Connect(cfg, lg)
  \/ \E c \in Clients :
       \/ HandshakeOk(c) \/ HandshakeFail(c)
       \/ \E out \in PwdOutputs : PwdDone(c, out)
       \/ \E ok \in BOOLEAN : KeyringSaved(c, ok)
  \/ \E i \in ConnIds, k \in 0..(ReconnectTries - 1) : ReconnectFire(i, k)
  \/ \E i \in ConnIds :
       \/ DisconnectTool(i) \/ DisconnectFinish(i) \/ DeleteTool(i) \/ DeleteFinish(i)
       \/ \E ok \in BOOLEAN : KeyringDeleted(i, ok)

\* IS_DOCKER is set or not
StoreInit == Constructed /\ isDocker \in BOOLEAN /\ text = << >> /\ parse = NoParse

StoreSpec == StoreInit /\ [][StoreNext]_vars

\* executeCommand calls, one at a time, on a connection that callers connect
\* and disconnect
EngineNext ==
  \/ \E cfg \in Configs : ConnectCall(cfg)
  \/ \E c \in Clients : HandshakeOk(c) \/ PwdDone(c, HomeDir)
  \/ \E i \in ConnIds : DisconnectTool(i) \/ DisconnectFinish(i)
  \/ \E i \in ConnIds, command \in Commands, timeout \in BOOLEAN, pw \in BOOLEAN :
       ExecuteCommand(i, command, timeout, pw)
  \/ \E code \in ExitCodes, o \in Outputs :
       ExecReturns(code, o) \/ SegmentReturns(code, o) \/ RegularReturns(code, o)
  \/ \E o \in PwdOutputs : PwdReturns(o)
  \/ \E kind \in {"timeout", "error"}, o \in Outputs : ExecRejects(kind, o)

EngineSpec == Init /\ [][EngineNext]_vars

\* the operations of the context manager in any order
CtxNext ==
  \/ \E i \in CtxConns, c \in Containers :
       /\ <<i, c>> \in CtxKeys
       /\ \/ \E w \in {Undefined, "/srv"} : SetContext(i, c, w)
          \/ UpdateActivity(i, c)
          \/ UpdateWorkingDirectory(i, c, "/srv")
          \/ SetEnvironmentVariable(i, c, "K=v")
          \/ CloseContainerSession(i, c)
  \/ \E i \in CtxConns : CloseAllContainerSessions(i)
  \/ \E age \in 0..1 : CleanupInactiveSessions(age)
  \/ TimePasses

CtxSpec == Init /\ [][CtxNext]_vars

\* the truncator applied to a text
TruncInit == Constructed /\ isDocker = FALSE /\ text \in Texts /\ parse = NoParse

TruncSpec == TruncInit /\ [][LimitOutput]_vars

\* parseCommand applied to a command line, and to the line that the wrap of
\* a regular command makes
ParseInit ==
  /\ Constructed /\ isDocker = FALSE /\ text = << >>
  /\ parse \in {[NoParse EXCEPT !.command = l] : l \in CommandLines}

ParseNext ==
  \/ ParseLine
  \/ \E c \in Containers, ctx \in Contexts : WrapLine(c, ctx)

ParseSpec == ParseInit /\ [][ParseNext]_vars

\* executeCommand calls on a connected connection, with a docker exec that
\* sets an environment variable
WrapCommands ==
  { <<"ls">>, <<"id">>,
    <<"docker", "exec", "-e", "K=v", "web", "ls">>,
    <<"docker", "exec", "-u", "www", "db", "ls">> }

WrapNext ==
  \/ \E cfg \in Configs : ConnectCall(cfg)
  \/ \E c \in Clients : HandshakeOk(c) \/ PwdDone(c, HomeDir)
  \/ \E i \in ConnIds, command \in WrapCommands : ExecuteCommand(i, command, FALSE, FALSE)
  \/ \E code \in ExitCodes, o \in Outputs : ExecReturns(code, o)

WrapSpec == Init /\ [][WrapNext]_vars

(***************************************************************************)
(* Properties of the registry                                              *)
(***************************************************************************)
\* C1: at no time does more than one live SSH client (handshake completed,
\* not disposed) exist for one connection id, whatever connect calls and
\* reconnect attempts overlap
C1_AtMostOneLiveClient ==
  \A i \in ConnIds : Cardinality(LiveClients(i)) <= 1

\* C2: with maxTries = ReconnectTries the reconnect timers make at most
\* ReconnectTries attempts for a connection per connect call of a tool
C2_AtMostMaxTriesAttempts ==
  \A i \in ConnIds :
    Cardinality({c \in Clients : inv[c].phase # "none" /\ inv[c].id = i
                                   /\ inv[c].origin = "timer"})
      <= ReconnectTries * Cardinality({c \in CallerClients : inv[c].id = i})

(***************************************************************************)
(* Properties of background tasks                                          *)
(***************************************************************************)
\* C6: at most one periodic timer runs for a connection at any time
C6_AtMostOneTimer ==
  \A i \in ConnIds : Cardinality({t \in Timers : timer[t].live /\ timer[t].id = i}) <= 1

\* C7: a tick of a timer that finds its connection not connected clears that
\* timer, so the task does not outlive the connected state
C7_TickStopsOwnTimer ==
  [][\A t \in Timers :
       (Tick(t) /\ ~StatusConnected(timer[t].id)) => ~timer'[t].live]_vars

\* C10: on one connection at most one command handed to executeCommand is in
\* flight at any time: tool calls with their probes, first runs of
\* backgroundExecute and timer ticks together
C10_OneCommandInFlight ==
  \A i \in ConnIds :
    Cardinality({x \in ExecCalls : xc[x].id = i /\ xc[x].pc \notin {"idle", "done"}})
    + Cardinality({b \in BgCalls : bgCall[b].id = i /\ bgCall[b].pc = "initial"})
    + Cardinality({tk \in Timers \X (1..MaxOverlap) :
                     timer[tk[1]].id = i /\ tk[2] <= timer[tk[1]].ticks}) <= 1

(***************************************************************************)
(* Properties of the tmux pre-flight check                                 *)
(***************************************************************************)
\* C8: in a send-keys call without force, once ps answered D, T or W, or
\* pgrep answered a child of the pane pid, the call only goes on to the
\* blocked warning, never runs the send-keys command and ends with an error
\* result; and while list-panes has reported an interactive command for the
\* pane the keys go to, no step of the call runs the send-keys command
C8_BlockedNeverSends ==
  [][\A x \in ExecCalls :
       LET r == xc[x]
           after == xc'[x]
           targetCommand ==
             IF r.target \in DOMAIN r.panes THEN r.panes[r.target][2] ELSE ""
       IN (r.kind = "sendkeys" /\ ~r.force) =>
            /\ ( \/ \E st \in {"D", "T", "W"} : PsDone(x, st)
                 \/ PgrepDone(x, TRUE)
                 \/ r.pc \in {"procInfo", "context"} )
                 => /\ ~after.sent
                    /\ after.pc \in {"procInfo", "context", "done"}
                    /\ after.pc = "done" => after.result \in {"blocked", "threw"}
            /\ targetCommand \in InteractiveCommands => ~after.sent]_vars

\* C9: a send-keys call with force that passed the connection checks issues
\* no probe at any time and has run the send-keys command when it returns
C9_ForceSkipsPreflight ==
  \A x \in ExecCalls :
    (xc[x].kind = "sendkeys" /\ xc[x].force)
      => /\ xc[x].probes = {}
         /\ (xc[x].pc = "done" /\ xc[x].result \notin {"noConnection", "notConnected"})
              => (xc[x].sent /\ xc[x].result = "returned")

\* a forced send-keys call has returned after its command ran
C9_Witness ==
  \E x \in ExecCalls :
    /\ xc[x].kind = "sendkeys" /\ xc[x].force
    /\ xc[x].pc = "done" /\ xc[x].result = "returned" /\ xc[x].sent

(***************************************************************************)
(* Properties of tunnels                                                   *)
(***************************************************************************)
\* C11: no two active tunnels share a local port, and a tunnel whose listener
\* is bound to its port stays in the map as an active tunnel while later
\* createTunnel calls for that port fail, also when the calls overlapped
\* before either listener was bound
C11_ActivePortsUniqueAndKept ==
  /\ \A a, b \in TunnelIds :
       (/\ tunnels[a].exists /\ tunnels[a].active
        /\ tunnels[b].exists /\ tunnels[b].active
        /\ tunnels[a].port = tunnels[b].port) => a = b
  /\ \A s \in Servers :
       srv[s].state = "listening"
         => tunnels[srv[s].id].exists /\ tunnels[srv[s].id].active

\* C12: when closeTunnel(id) returns true every socket pair of the tunnel is
\* destroyed on the local side and on the stream side, the listener of the
\* tunnel has stopped and the record is gone; closeTunnel on an id that the
\* map does not hold changes no state
C12_CloseTunnelDestroysPairs ==
  [][/\ \A id \in TunnelIds, s \in Servers :
          CloseFinish(id, s)
            => /\ \A k \in Sockets :
                    sock'[k].srv = s
                      => /\ sock'[k].local = "destroyed"
                         /\ sock'[k].stream # "open"
               /\ srv'[s].state # "listening"
               /\ ~tunnels'[id].exists
     /\ \A id \in TunnelIds :
          (CloseTunnelTool(id) /\ ~tunnels[id].exists) => UNCHANGED vars]_vars

\* C13: when disconnect or deleteConnection has closed the transport of a
\* connection, no tunnel of that connection is active any more, and when a
\* connect of a connection without client stores a new client no tunnel of
\* the connection is active
C13_TunnelsEndWithTransport ==
  [][\A i \in ConnIds :
       ( \/ DisconnectFinish(i)
         \/ DeleteFinish(i)
         \/ \E c \in Clients : /\ HandshakeOk(c) /\ inv[c].id = i
                                /\ conn[i].client = 0 /\ conn'[i].client = c )
         => \A id \in TunnelIds :
              id[1] = i => ~(tunnels'[id].exists /\ tunnels'[id].active)]_vars

(***************************************************************************)
(* Properties of terminal sessions                                         *)
(***************************************************************************)
\* C14: the password of the connection is written to the stream of a session
\* once for every password prompt detected in its output, never more often
C14_PasswordOncePerPrompt ==
  \A ch \in Channels : session[ch].pwOut <= session[ch].detected

\* C15: a writeToTerminal call that returns true has written the bytes of
\* the caller, and nothing else, to the stream of the session, has set
\* lastActivity and has left the password prompt flag cleared, whether or
\* not the flag was set when it was called
C15_WriteSendsCallerBytes ==
  [][\A w \in WriteCalls :
       ( /\ (\E sid \in SessionIds : WriteToTerminal(w, sid)) \/ WriteAfterCredentials(w)
         /\ wcall'[w].pc = "done" /\ wcall'[w].result )
         => LET ch == wcall'[w].ob
            IN /\ session'[ch].dataOut = session[ch].dataOut + 1
               /\ session'[ch].pwOut = session[ch].pwOut
               /\ session'[ch].lastActivity = clock
               /\ ~session'[ch].prompt]_vars

C17_BytesWithinSize ==
  \A t \in Transfers :
    /\ xfer[t].bytesTransferred <= xfer[t].size
    /\ xfer[t].status = "completed" => xfer[t].bytesTransferred = xfer[t].size

C19_FailedStaysFailed ==
  \A t \in Transfers : xfer[t].failure => (xfer[t].status = "failed" /\ xfer[t].inMap)

\* C20: while the read stream of the transfer of an uploadFile or
\* downloadFile tool call delivers bytes, the progress listener of that call
\* is registered, so that its progress events reach the client
C20_SubscribedWhileTransferring ==
  \A t \in Transfers : xfer[t].rs = "open" => xfer[t].sub

(***************************************************************************)
(* Properties of batch transfers                                           *)
(***************************************************************************)
\* C21: batchTransfer throws the failure of the whole batch only when every
\* item failed; when an item did not fail the ids are returned, and the tool
\* reports how many of the transfers completed and how many failed; item
\* k + 1 is started only after item k has reached a terminal status
C21_BatchOutcome ==
  /\ batch.result = "batch failed" =>
        \A k \in 1..batch.n : item[k].pc = "threw" \/ item[k].failure
  /\ (batch.pc \in {"polling", "done"} /\ batch.k = 0
        /\ \E k \in 1..batch.n : item[k].pc = "done" /\ ~item[k].failure) =>
        /\ batch.result \in {"none", "counts"}
        /\ batch.ids = {k \in 1..batch.n : item[k].pc = "done"}
  /\ batch.result = "counts" =>
        /\ batch.successCount = Cardinality({k \in batch.ids : ~item[k].failure})
        /\ batch.failedCount = Cardinality({k \in batch.ids : item[k].failure})
  /\ \A k \in Items : (k + 1 \in Items /\ item[k + 1].pc # "idle") =>
        /\ item[k].pc \in {"done", "threw"}
        /\ item[k].pc = "done" => item[k].status \in {"completed", "failed"}

(***************************************************************************)
(* Properties of the stores behind the registry                            *)
(***************************************************************************)
\* C22: deleteConnection(id) first disconnects the client of the connection
\* (the client that the entry holds when it is removed has been disposed),
\* and when it returns the id is in none of the registry, the persisted
\* collection and the credential store
C22_DeleteRemovesEverywhere ==
  [][\A i \in ConnIds :
       /\ (DeleteFinish(i) /\ conn[i].client # 0) =>
             transport'[conn[i].client] = "disposed"
       /\ ( \/ DeleteTool(i) /\ conn[i].client = 0 /\ isDocker
            \/ DeleteFinish(i) /\ isDocker
            \/ \E ok \in BOOLEAN : KeyringDeleted(i, ok) ) =>
             /\ ~conn'[i].exists
             /\ ~persisted'[i]
             /\ creds'[i] = NoCreds]_vars

\* C23: a stored password or passphrase of an id is not removed or blanked
\* by a step that is no step of deleteConnection: after a step of connect,
\* of a reconnect attempt or of disconnect a secret that was stored is still
\* stored (as it was, or replaced by one that is not empty)
C23_SecretsStayStored ==
  [][\A i \in ConnIds :
       ( \/ creds[i].password # 0 /\ creds'[i].password = 0
         \/ creds[i].passphrase # 0 /\ creds'[i].passphrase = 0 ) =>
       ( \/ DeleteTool(i) \/ DeleteFinish(i)
         \/ \E ok \in BOOLEAN : KeyringDeleted(i, ok) )]_vars

\* C24: the currentDirectory of a connection is defined only while its
\* status is connected
C24_DirectoryOnlyWhileConnected ==
  \A i \in ConnIds :
    currentDirectory[i] # Undefined => conn[i].exists /\ conn[i].status = "connected"

\* ---------------------------------------------------------------------
\* Properties of the command engine, the container contexts and the
\* output truncator
\* ---------------------------------------------------------------------

\* C25: when executeCommand has run `cd <dir>` on the remote and the command
\* exited with 0, the connection's currentDirectory is <dir>
C25_CdSetsDirectory ==
  (call.pc = "returned" /\ ~call.threw /\ Len(call.sent) = 2 /\ call.sent[1] = "cd"
     /\ call.result.code = 0)
    => currentDirectory[call.conn] = call.sent[2]

\* the command line is docker exec -w W -u U C followed by a command
WithWorkdirAndUser(t) ==
  /\ Len(t) >= 8
  /\ SubSeq(t, 1, 3) = <<"docker", "exec", "-w">>
  /\ t[5] = "-u"
  /\ t[4] \notin DashWords /\ t[6] \notin DashWords /\ t[7] \notin DashWords

\* the call in flight follows a docker exec -w W -u U C that executeCommand
\* ran on the same connection, and its command X is a regular one
NextAfterDockerExec ==
  /\ call.pc = "exec"
  /\ prev.ran /\ prev.conn = call.conn /\ WithWorkdirAndUser(prev.run)
  /\ ParseCommand(call.command).type = "regular"

\* the words docker exec -w W -u U C of the command line t
ContextWords(t) == SubSeq(t, 1, 7)

C27_ActiveContainerIsLatest ==
  \A i \in CtxConns :
    LET own == {k \in 1..Len(sessions) :
                  sessions[k].connectionId = i /\ sessions[k].isActive}
        r == GetActiveContainer(sessions, i)
    IN  /\ (r = Undefined) <=> (own = {})
        /\ r # Undefined =>
             \E k \in own : /\ sessions[k].containerName = r
                            /\ \A j \in own : sessions[j].lastActivity <= sessions[k].lastActivity
        /\ r = GetActiveContainer(SelectSeq(sessions, LAMBDA s : s.connectionId = i), i)

\* C27 witness: a connection with an active session, a later active session
\* that is the active container, a closed session of another time, next to
\* a session of another connection that is later than both
C27_Witness ==
  \E i \in CtxConns, a, b \in 1..Len(sessions), o \in 1..Len(sessions) :
    /\ sessions[a].connectionId = i /\ sessions[b].connectionId = i
    /\ sessions[a].isActive /\ sessions[b].isActive
    /\ sessions[a].lastActivity < sessions[b].lastActivity
    /\ sessions[o].connectionId # i /\ sessions[o].isActive
    /\ sessions[o].lastActivity > sessions[b].lastActivity
    /\ a > b
    /\ GetActiveContainer(sessions, i) = sessions[b].containerName

\* C28: of a text longer than 10 000 units the truncator returns the first
\* 3 000 units, a message that holds the number of omitted units (the length
\* less 6 000), and the last 3 000 units
C28_TruncatorKeepsEnds ==
  (output # << >> /\ Len(text) > 10000) =>
    LET n == Len(output)
        RECURSIVE Decimal(_)
        \* the number that a sequence of digits writes
        Decimal(d) ==
          IF d = << >> THEN 0
          ELSE 10 * Decimal(SubSeq(d, 1, Len(d) - 1))
                 + (CHOOSE v \in 0..9 : DigitChars[v + 1] = d[Len(d)])
    IN  /\ n > 6002
        /\ \A k \in 1..3000 : /\ output[k] = text[k]
                              /\ output[n - 3000 + k] = text[Len(text) - 3000 + k]
        /\ output[3001] = "[omitted " /\ output[n - 3000] = " characters, hints]"
        /\ \A k \in 3002..(n - 3001) : \E v \in 1..10 : DigitChars[v] = output[k]
        /\ Decimal(SubSeq(output, 3002, n - 3001)) = Len(text) - 6000

\* C28 witness: a text of more than 10 000 units was truncated
C28_Witness == Len(text) > 10001 /\ Len(output) > 6000 /\ Len(output) < Len(text)

\* C29: when the command of an executeCommand call timed out, the call
\* returns exit code 1, a stderr that tells of the timeout, and as stdout
\* what the remote had printed until then
C29_TimeoutKeepsOutput ==
  (call.pc = "returned" /\ call.timedOut)
    => /\ call.result.code = 1
       /\ call.result.stderr = "timeout"
       /\ call.result.stdout = call.collected

\* C30: a compound command that needs a container context runs its docker
\* exec segments in their order, stores the context of each, runs nothing
\* after a segment that did not exit with 0, runs the regular segments in
\* the last container when every docker exec segment exited with 0, and
\* returns the exit code of the last command that ran
C30_SegmentsInOrder ==
  LET parsed == ParseCommand(call.command)
      d == parsed.dockerCommands
      n == Len(call.log)
  IN  (call.pc = "returned" /\ ~call.threw /\ parsed.needsContainerContext) =>
        /\ n >= 1 /\ n <= Len(d) + 1
        /\ \A k \in 1..n :
             k <= Len(d) =>
               /\ call.log[k].sent = <<"docker", "exec">> \o d[k].options
                                       \o Opt("-w", d[k].workdir) \o Opt("-u", d[k].user)
                                       \o <<d[k].containerName>> \o d[k].command
               /\ GetContainerContext(sessions, call.conn, d[k].containerName).found
        /\ \A k \in 1..n : k < n => call.log[k].code = 0
        /\ n <= Len(d) => call.log[n].code # 0
        /\ n = Len(d) + 1 =>
             LET s == call.log[n].sent
             IN  /\ SubSeq(s, 1, 2) = <<"docker", "exec">>
                 /\ \E k \in 3..Len(s) :
                      /\ s[k] = d[Len(d)].containerName
                      /\ SubSeq(s, k + 1, Len(s))
                           = <<"sh", "-c", "\"">> \o JoinAnd(parsed.regularCommands) \o <<"\"">>
        /\ call.result.code = call.log[n].code

\* ---------------------------------------------------------------------
\* Properties of the context manager's history, of background tasks, of
\* the registry after disconnect and delete, and of the command parser
\* ---------------------------------------------------------------------

\* C33: no operation of the context manager removes a session: every session
\* keeps its place and its key, the number of sessions never decreases, and
\* cleanupInactiveSessions(N) changes nothing but isActive, which it clears
\* exactly on the sessions whose lastActivity is older than N
C33_SessionsNeverRemoved ==
  [][ /\ Len(sessions') >= Len(sessions)
      /\ \A k \in 1..Len(sessions) :
           /\ sessions'[k].connectionId = sessions[k].connectionId
           /\ sessions'[k].containerName = sessions[k].containerName
      /\ \A age \in 0..MaxTime :
           CleanupInactiveSessions(age) =>
             /\ Len(sessions') = Len(sessions)
             /\ \A k \in 1..Len(sessions) :
                  /\ [sessions'[k] EXCEPT !.isActive = TRUE]
                       = [sessions[k] EXCEPT !.isActive = TRUE]
                  /\ sessions'[k].isActive
                       = (sessions[k].isActive /\ ~(sessions[k].lastActivity + age < dateNow))
    ]_vars

\* C33 witness: two sessions of a connection are kept in the map, the one
\* that was not used for a time inactive and the one used now active
C33_Witness ==
  \E a, b \in 1..Len(sessions) :
    /\ sessions[a].connectionId = sessions[b].connectionId
    /\ ~sessions[a].isActive /\ sessions[a].lastActivity < dateNow
    /\ sessions[b].isActive /\ sessions[b].lastActivity = dateNow

\* the clients that connect calls, of callers or of reconnect timers, have
\* created for the connection i
ClientsOf(i) == {c \in Clients : inv[c].phase # "none" /\ inv[c].id = i}

\* C35: once a caller's disconnect of a connection has succeeded (the client
\* d of the connection object was disposed and disconnect has returned) and
\* as long as no caller's connect has created a newer client, the connection
\* is not connected and has no client: no reconnect timer of an earlier
\* failed connect connects it again
C35_StaysDisconnected ==
  \A i \in ConnIds :
    \A d \in ClientsOf(i) :
      ( /\ transport[d] = "disposed"
        /\ conn[i].exists /\ conn[i].gen = inv[d].gen
        /\ closing[i].kind = "none"
        /\ \A c \in ClientsOf(i) : inv[c].origin = "caller" => c <= d )
        => (conn[i].status # "connected" /\ conn[i].client = 0)

\* C36: after deleteConnection(id) has returned the id is in the registry
\* only when a caller's connect has created its entry, never when the connect
\* of a reconnect timer has, and it is in the persisted collection only
\* while it is in the registry
C36_DeletedStaysAbsent ==
  \A i \in ConnIds :
    closing[i].kind = "none" =>
      /\ conn[i].exists =>
           \E c \in ClientsOf(i) :
             /\ inv[c].gen = conn[i].gen /\ inv[c].origin = "caller"
             /\ \A t \in ClientsOf(i) : inv[t].gen = conn[i].gen => c <= t
      /\ persisted[i] => conn[i].exists

\* C37: a connection whose status is connected has a client, one that was
\* created for it and whose handshake has completed
C37_ConnectedHasClient ==
  \A i \in ConnIds :
    (conn[i].exists /\ conn[i].status = "connected") =>
      /\ conn[i].client # 0
      /\ inv[conn[i].client].id = i
      /\ transport[conn[i].client] \in {"ready", "disposed"}

\* C37 witness: a connection is connected again after a disconnect disposed
\* its earlier client
C37_Witness ==
  \E i \in ConnIds, d \in Clients :
    /\ conn[i].exists /\ conn[i].status = "connected" /\ conn[i].client # 0
    /\ conn[i].client # d /\ inv[d].id = i /\ transport[d] = "disposed"
    /\ closing[i].kind = "none"

\* C34: a command of a background task that fails neither clears the timer
\* of the task nor removes the entry of its connection; and while the
\* connection is connected, the timer of a task is cleared by nothing but a
\* stop of the task or a disconnect or delete of the connection
C34_KeepsTickingUntilStopped ==
  [][\A t \in Timers :
       /\ TickDone(t, FALSE) =>
            /\ timer'[t].live = timer[t].live
            /\ bgEntry' = bgEntry
       /\ (timer[t].live /\ ~timer'[t].live /\ StatusConnected(timer[t].id)) =>
            \/ StopBackgroundTool(timer[t].id)
            \/ DisconnectTool(timer[t].id)
            \/ DeleteTool(timer[t].id)
    ]_vars

\* C34 (amended): the same, with one more operation that clears the timer
\* of a task: a new backgroundExecute on the connection, which replaces the
\* task
C34_FailureKeepsTask ==
  [][\A t \in Timers :
       /\ TickDone(t, FALSE) =>
            /\ timer'[t].live = timer[t].live
            /\ bgEntry' = bgEntry
       /\ (timer[t].live /\ ~timer'[t].live /\ StatusConnected(timer[t].id)) =>
            \/ StopBackgroundTool(timer[t].id)
            \/ DisconnectTool(timer[t].id)
            \/ DeleteTool(timer[t].id)
            \/ \E b \in BgCalls : BackgroundExecute(b, timer[t].id)
    ]_vars

\* C34 witness: a task whose command has failed has its timer and its entry,
\* and the timer has ticked again
C34_Witness ==
  \E t \in Timers :
    /\ timer[t].failed /\ timer[t].live /\ timer[t].ticks > 0
    /\ bgEntry[timer[t].id] = t
    /\ StatusConnected(timer[t].id)

\* C31: parseCommand classifies a command line whose quoted texts are closed
\* as compound exactly when a separator &&, || or ; stands outside double
\* quotes: a line whose only separators stand inside a quoted text is not
\* compound and is not split
C31_SplitsOutsideQuotesOnly ==
  LET t == parse.command
      \* the words before place k hold an odd number of quote marks
      InQuotes(k) == Cardinality({j \in 1..(k - 1) : t[j] \in {"\"a", "b\""}}) % 2 = 1
      unquoted == {k \in 1..Len(t) : t[k] \in Separators /\ ~InQuotes(k)}
  IN  (parse.wraps = 0 /\ parse.result # NoResult /\ ~InQuotes(Len(t) + 1)) =>
        /\ (parse.result.type = "compound") <=> (unquoted # {})
        /\ unquoted = {} =>
             Len(parse.result.dockerCommands) + Len(parse.result.regularCommands) <= 1

\* C38: the re-entry of executeCommand with a wrapped command ends: the
\* wrapped command of a regular command is not a regular command when it is
\* parsed again, so a command is wrapped at most once
C38_WrappedIsNotRegular ==
  /\ parse.wraps <= 1
  /\ (parse.wraps = 1 /\ parse.result # NoResult) => parse.result.type # "regular"

\* C38 witness: the empty command was wrapped for a session without user and
\* environment, and the wrapped line docker exec -w /root web is parsed as
\* a docker exec command
C38_Witness ==
  /\ parse.wraps = 1
  /\ parse.command = <<"docker", "exec", "-w", "/root", "web">>
  /\ parse.result.type = "docker_exec"

\* C39: a regular command that runs through the wrap of the active container
\* leaves the session of that container as it was in working directory, user
\* and environment
C39_WrapKeepsSession ==
  [][ (call.pc = "exec" /\ call'.pc = "returned" /\ call.run # call.command) =>
        LET c == GetActiveContainer(sessions, call.conn)
        IN  GetContainerContext(sessions', call.conn, c)
              = GetContainerContext(sessions, call.conn, c)
    ]_vars

\* C40: parseCompoundCommand loses no segment: the entries of dockerCommands
\* and of regularCommands are as many as the segments of the line that are
\* not empty, every regular entry is a segment and every docker entry is
\* what parseDockerExecCommand makes of a segment
C40_NoSegmentLost ==
  LET t == parse.command
      RECURSIVE Split(_, _, _)
      Split(i, cur, acc) ==
        IF i > Len(t) THEN Append(acc, cur)
        ELSE IF t[i] \in Separators THEN Split(i + 1, << >>, Append(acc, cur))
        ELSE Split(i + 1, Append(cur, t[i]), acc)
      segments == SelectSeq(Split(1, << >>, << >>), LAMBDA sg : sg # << >>)
      d == parse.result.dockerCommands
      r == parse.result.regularCommands
  IN  parse.result.type = "compound" =>
        /\ Len(d) + Len(r) = Len(segments)
        /\ \A k \in 1..Len(r) : \E j \in 1..Len(segments) : segments[j] = r[k]
        /\ \A k \in 1..Len(d) :
             \E j \in 1..Len(segments) : ParseDockerExecCommand(segments[j]) = d[k]

\* C32: an executeCommand call of a send-keys command that ran and ended
\* with code 0 has issued, as its last remote operations and in this order,
\* a capture of the pane, the command, and a second capture of the pane, and
\* returns the text built from the difference of the two captures
C32_CapturesAroundSendKeys ==
  \A x \in ExecCalls :
    LET r == xc[x]
        n == Len(r.ops)
    IN  (r.kind = "sendkeys" /\ r.pc = "done" /\ r.sent /\ r.code = 0) =>
          /\ n >= 3
          /\ <<r.ops[n - 2], r.ops[n - 1], r.ops[n]>>
               = <<"capture-pane", "command", "capture-pane">>
          /\ r.result = "enriched"

====
